---- MODULE Spec2Model ----
(***************************************************************************)
(* Verification model of the CryptoSurferTrader signal-to-trade pipeline.  *)
(*                                                                         *)
(* The repository holds several independent programs.  Each is modelled    *)
(* as its own group of variables with its own specification:               *)
(*   Spec        TradingService            (server/python_service.py)      *)
(*   SpecExec    RiskManagedTradeExecutor  (trade_executor.py)             *)
(*   SpecMonitor SocialSentimentMonitor    (server/social_monitor.py)      *)
(*   SpecScore   update_sentiment_score    (server/social_monitor.py)      *)
(*   SpecValidate OnChainSignalValidator  (signal_validator.py)            *)
(*   SpecWhale   analyze_whale_activity    (signal_validator.py)           *)
(*   SpecSimple  SimpleTradingService      (server/simple_trading_service) *)
(*   SpecMeme    MemeTrader                (server/trading_engine.py)      *)
(*   SpecOpen    the opening of positions  (server/python_service.py)      *)
(*   SpecGate    _check_trading_signal     (python_service, social_monitor) *)
(*   SpecBacktest StrategyBacktester      (server/strategy_backtest.py)    *)
(*   SpecLoops   the periodic loops        (python_service, social_monitor) *)
(* A specification leaves the variables of the other programs untouched.   *)
(*                                                                         *)
(* Money is counted in cents, prices in millionths of a dollar (the code   *)
(* rounds prices to 6 decimals and money to 2), scores in hundredths.      *)
(***************************************************************************)
EXTENDS Integers, Sequences, FiniteSets, TLC

(***************************************************************************)
(* RiskManagedTradeExecutor  (trade_executor.py)                           *)
(***************************************************************************)
VARIABLES
    e_pc,       \* position of the running execute_trade call
    e_in,       \* the arguments of the running execute_trade call
    e_fee,      \* fee_result, the local of execute_trade
    e_sim,      \* sim_result, the local of execute_trade
    e_result    \* the result dictionary execute_trade builds and returns

execVars == <<e_pc, e_in, e_fee, e_sim, e_result>>

\* Classes of an address argument: 42 characters starting with 0x; starting
\* with 0x but of another length; not starting with 0x.
AddressForms == {"valid", "0x_short", "bad"}

\* Classes of amount_to_spend: a finite number; a string float() accepts but
\* int() rejects (inf, nan); a string float() rejects.
AmountForms == {"num", "nonfinite", "garbage"}

\* What one GET of a fee endpoint can do: raise RequestException; answer
\* with a status other than 200; answer 200 with numeric fee fields; answer
\* 200 with a fee field that int() rejects; answer 200 with a body whose
\* decoding or traversal raises something other than RequestException.
FeeOutcomes == {"exc", "non200", "ok_num", "ok_nonnum", "malformed"}

\* What one POST to a simulation endpoint can do.
SimOutcomes == {"exc", "non200", "ok200", "malformed"}

FeeEndpoints == 1..3
SimEndpoints == 1..2

\* A stage result that has not been stored in the result dictionary (None,
\* or a key that is absent).
NoStage == [populated |-> FALSE, success |-> FALSE, kind |-> "none"]

StageResult(ok, kind) == [populated |-> TRUE, success |-> ok, kind |-> kind]

\* The hash sign_transaction computes from the prepared transaction.
TxHash == "0xsha256"

\* The first endpoint, in order, whose answer ends the loop of
\* estimate_gas_fees: a 200 answer returns or raises, the others continue.
FirstDecisive(resp, n) ==
    LET hits == {i \in 1..n : resp[i] \notin {"exc", "non200"}}
    IN  IF hits = {} THEN 0 ELSE CHOOSE i \in hits : \A j \in hits : i <= j

\* estimate_gas_fees: the result dictionary, reduced to success, where the
\* values come from, and whether fast_gas_price is a number int() accepts.
estimate_gas_fees(resp) ==
    LET k == FirstDecisive(resp, 3)
    IN  IF k = 0
          THEN [success |-> TRUE, kind |-> "fallback", gas_numeric |-> TRUE]
        ELSE IF resp[k] = "malformed"
          THEN [success |-> FALSE, kind |-> "processing_error", gas_numeric |-> FALSE]
        ELSE IF k \in {1, 2}
          \* 'gas' or 'fee' is in the endpoint: the provider's values are
          \* passed on as they are
          THEN [success |-> TRUE, kind |-> "provider",
                gas_numeric |-> (resp[k] = "ok_num")]
        \* latest block: int(base_fee) * 2
        ELSE IF resp[k] = "ok_num"
          THEN [success |-> TRUE, kind |-> "provider", gas_numeric |-> TRUE]
          ELSE [success |-> FALSE, kind |-> "processing_error", gas_numeric |-> FALSE]

\* build_swap_transaction_data raises ValueError unless the amount converts
\* to an integer number of wei.
build_swap_raises(in) == in.amount # "num"

IsAddress(form) == form = "valid"

\* perform_basic_validation: format checks of the three addresses, then
\* float(amount), then the transaction data (rebuilt when tx_data is empty).
perform_basic_validation(in, tx_data_given) ==
    IF ~IsAddress(in.from_address) THEN [success |-> FALSE, kind |-> "validation_failure"]
    ELSE IF ~IsAddress(in.to_contract) THEN [success |-> FALSE, kind |-> "validation_failure"]
    ELSE IF ~IsAddress(in.token_to_buy) THEN [success |-> FALSE, kind |-> "validation_failure"]
    ELSE IF in.amount = "garbage" THEN [success |-> FALSE, kind |-> "validation_error"]
    ELSE IF ~tx_data_given /\ build_swap_raises(in)
        THEN [success |-> FALSE, kind |-> "validation_error"]
    ELSE [success |-> TRUE, kind |-> "fallback_validation"]

\* simulate_transaction: any endpoint answering 200 with a decodable body
\* makes the simulation a success; when none does, the result is that of
\* perform_basic_validation.
simulate_transaction(in, resp) ==
    IF build_swap_raises(in) THEN perform_basic_validation(in, FALSE)
    ELSE LET k == FirstDecisive(resp, 2)
         IN  IF k = 0 THEN perform_basic_validation(in, TRUE)
             ELSE IF resp[k] = "ok200" THEN [success |-> TRUE, kind |-> "endpoint"]
             ELSE perform_basic_validation(in, FALSE)

\* prepare_transaction: int() of the fee's fast_gas_price raises when the
\* provider's value is not numeric; the amount was converted before.
prepare_transaction(in, sim, fee) ==
    IF build_swap_raises(in) \/ ~fee.gas_numeric
        THEN [success |-> FALSE, kind |-> "preparation_error"]
        ELSE [success |-> TRUE, kind |-> "prepared"]

\* sign_transaction: only the 0x prefix of "from" is checked.
sign_transaction(in) ==
    IF in.from_address = "bad"
        THEN [success |-> FALSE, kind |-> "validation_error", transaction_hash |-> "None"]
        ELSE [success |-> TRUE, kind |-> "secure_simulation", transaction_hash |-> TxHash]

\* The keys of the signed_transaction dictionary sign_transaction builds.
SignedTransactionKeys ==
    {"rawTransaction", "hash", "r", "s", "v", "from", "to", "value", "gas",
     "gasPrice", "nonce"}

\* broadcast_transaction: a mock that always succeeds; its transaction_hash
\* is signed_tx.get("transaction_hash").
broadcast_transaction(sign) ==
    [success |-> TRUE, kind |-> "pending",
     transaction_hash |-> IF "transaction_hash" \in SignedTransactionKeys
                            THEN sign.transaction_hash ELSE "None"]

ExecInputs ==
    [from_address : AddressForms, to_contract : AddressForms,
     token_to_buy : AddressForms, amount : AmountForms]

NoInput ==
    [from_address |-> "valid", to_contract |-> "valid",
     token_to_buy |-> "valid", amount |-> "num"]

NoFee == [success |-> FALSE, kind |-> "none", gas_numeric |-> FALSE]

InitialResult ==
    [status |-> "initialized", fee_estimation |-> NoStage,
     simulation_result |-> NoStage, preparation_result |-> NoStage,
     signing_result |-> NoStage, broadcast_result |-> NoStage,
     broadcast_transaction_hash |-> "None"]

ExecInit ==
    /\ e_pc = "idle"
    /\ e_in = NoInput
    /\ e_fee = NoFee
    /\ e_sim = NoStage
    /\ e_result = InitialResult

\* execute_trade is called: the result dictionary is created.
ExecuteTrade ==
    /\ e_pc \in {"idle", "returned"}
    /\ \E in \in ExecInputs : e_in' = in
    /\ e_pc' = "fee"
    /\ e_fee' = NoFee
    /\ e_sim' = NoStage
    /\ e_result' = InitialResult

\* Step 1: fee estimation.
StepFee ==
    /\ e_pc = "fee"
    /\ \E resp \in [FeeEndpoints -> FeeOutcomes] :
         LET fee == estimate_gas_fees(resp)
         IN  /\ e_fee' = fee
             /\ e_result' =
                  [e_result EXCEPT
                     !.fee_estimation = StageResult(fee.success, fee.kind),
                     !.status = IF fee.success THEN @ ELSE "failed_fee_estimation"]
             /\ e_pc' = IF fee.success THEN "simulate" ELSE "returned"
    /\ UNCHANGED <<e_in, e_sim>>

\* StepSimulate without the early return on a failed simulation.
StepSimulate_NoAbort ==
    /\ e_pc = "simulate"
    /\ \E resp \in [SimEndpoints -> SimOutcomes] :
         LET sim == simulate_transaction(e_in, resp)
         IN  /\ e_sim' = StageResult(sim.success, sim.kind)
             /\ e_result' =
                  [e_result EXCEPT
                     !.simulation_result = StageResult(sim.success, sim.kind)]
             /\ e_pc' = "prepare"
    /\ UNCHANGED <<e_in, e_fee>>

\* Step 2: transaction simulation.
StepSimulate ==
    /\ e_pc = "simulate"
    /\ \E resp \in [SimEndpoints -> SimOutcomes] :
         LET sim == simulate_transaction(e_in, resp)
         IN  /\ e_sim' = StageResult(sim.success, sim.kind)
             /\ e_result' =
                  [e_result EXCEPT
                     !.simulation_result = StageResult(sim.success, sim.kind),
                     !.status = IF sim.success THEN @ ELSE "failed_simulation"]
             /\ e_pc' = IF sim.success THEN "prepare" ELSE "returned"
    /\ UNCHANGED <<e_in, e_fee>>

\* StepPrepare without the early return on a failed preparation.
StepPrepare_NoReturn ==
    /\ e_pc = "prepare"
    /\ LET prep == prepare_transaction(e_in, e_sim, e_fee)
       IN  /\ e_result' =
                [e_result EXCEPT
                   !.preparation_result = StageResult(prep.success, prep.kind),
                   !.status = IF prep.success THEN @ ELSE "failed_preparation"]
           /\ e_pc' = "sign"
    /\ UNCHANGED <<e_in, e_fee, e_sim>>

\* Step 3: transaction preparation.
StepPrepare ==
    /\ e_pc = "prepare"
    /\ LET prep == prepare_transaction(e_in, e_sim, e_fee)
       IN  /\ e_result' =
                [e_result EXCEPT
                   !.preparation_result = StageResult(prep.success, prep.kind),
                   !.status = IF prep.success THEN @ ELSE "failed_preparation"]
           /\ e_pc' = IF prep.success THEN "sign" ELSE "returned"
    /\ UNCHANGED <<e_in, e_fee, e_sim>>

\* StepSign without the early return on a failed signing.
StepSign_NoReturn ==
    /\ e_pc = "sign"
    /\ LET sign == sign_transaction(e_in)
       IN  /\ e_result' =
                [e_result EXCEPT
                   !.signing_result = StageResult(sign.success, sign.kind),
                   !.status = IF sign.success THEN @ ELSE "failed_signing"]
           /\ e_pc' = "broadcast"
    /\ UNCHANGED <<e_in, e_fee, e_sim>>

\* Step 4: transaction signing.
StepSign ==
    /\ e_pc = "sign"
    /\ LET sign == sign_transaction(e_in)
       IN  /\ e_result' =
                [e_result EXCEPT
                   !.signing_result = StageResult(sign.success, sign.kind),
                   !.status = IF sign.success THEN @ ELSE "failed_signing"]
           /\ e_pc' = IF sign.success THEN "broadcast" ELSE "returned"
    /\ UNCHANGED <<e_in, e_fee, e_sim>>

\* Step 5: transaction broadcast, and the return of execute_trade.
StepBroadcast ==
    /\ e_pc = "broadcast"
    /\ LET bc == broadcast_transaction(sign_transaction(e_in))
       IN  /\ e_result' =
                [e_result EXCEPT
                   !.broadcast_result = StageResult(bc.success, bc.kind),
                   !.broadcast_transaction_hash = bc.transaction_hash,
                   !.status = IF bc.success THEN "success" ELSE "failed_broadcast"]
           /\ e_pc' = "returned"
    /\ UNCHANGED <<e_in, e_fee, e_sim>>

(***************************************************************************)
(* OnChainSignalValidator  (signal_validator.py)                           *)
(***************************************************************************)
\* The thresholds taken as reached when equalled.
determine_validation_status_AtLeast(tx_count, whale_count, volume) ==
    IF tx_count >= 30 /\ whale_count >= 2 /\ volume >= 1000 THEN "STRONG_VALIDATION"
    ELSE IF tx_count >= 20 /\ whale_count >= 1 /\ volume >= 500 THEN "MODERATE_VALIDATION"
    ELSE IF tx_count >= 10 /\ volume >= 100 THEN "WEAK_VALIDATION"
    ELSE "NO_VALIDATION"

\* determine_validation_status: the tier of (tx_count, whale_count, volume).
determine_validation_status(tx_count, whale_count, volume) ==
    IF tx_count > 30 /\ whale_count > 2 /\ volume > 1000 THEN "STRONG_VALIDATION"
    ELSE IF tx_count > 20 /\ whale_count > 1 /\ volume > 500 THEN "MODERATE_VALIDATION"
    ELSE IF tx_count > 10 /\ volume > 100 THEN "WEAK_VALIDATION"
    ELSE "NO_VALIDATION"

\* The recent on-chain activity of a token contract, as the metrics
\* validate_signal derives from the provider's transfers.
ChainActivities ==
    { [tx_count |-> 35, whale_count |-> 3, volume |-> 1500],
      [tx_count |-> 25, whale_count |-> 2, volume |-> 600],
      [tx_count |-> 15, whale_count |-> 0, volume |-> 150],
      [tx_count |-> 5,  whale_count |-> 0, volume |-> 50],
      [tx_count |-> 0,  whale_count |-> 0, volume |-> 0] }

\* The activities the monitored tokens are given: one of each extreme tier.
MonitoredActivities ==
    {a \in ChainActivities : a.tx_count \in {5, 35}}

\* validate_signal: the validation_status of the result.
validate_signal(activity) ==
    determine_validation_status(activity.tx_count, activity.whale_count,
                                activity.volume)

\* One call of validate_signal and what it gave.
VARIABLES
    o_call,     \* what the provider did for the call, and the activity it holds
    o_result,   \* the result of the call, or that it raised
    o_transactions, \* the transactions given to analyze_whale_activity
    o_whales    \* what analyze_whale_activity returned for them

valVars == <<o_call, o_result, o_transactions, o_whales>>

\* What one request to the provider can do: fail to connect; answer with an
\* error status (raise_for_status raises); answer 200 with the expected
\* body; answer 200 with JSON of another shape ("data" null, an item that
\* is no object), whose traversal raises AttributeError or TypeError.
ProviderOutcomes == {"unreachable", "http_error", "ok", "malformed"}

\* Activities around the thresholds of determine_validation_status.
ThresholdActivities ==
    [tx_count : {10, 11, 20, 21, 30, 31}, whale_count : {0, 1, 2, 3},
     volume : {100, 101, 500, 501, 1000, 1001}]

ValidatorActivities == ChainActivities \cup ThresholdActivities

NoActivity == [tx_count |-> 0, whale_count |-> 0, volume |-> 0]

\* fetch_token_details: RequestException gives the "Unknown Token"
\* defaults, any other exception leaves the function.
fetch_token_details(outcome) ==
    [raised |-> outcome = "malformed", known |-> outcome = "ok"]

\* fetch_recent_transactions: RequestException gives the empty list; a body
\* of another shape raises here or in the loops over the transactions.
fetch_recent_transactions(outcome, activity) ==
    [raised |-> outcome = "malformed",
     activity |-> IF outcome = "ok" THEN activity ELSE NoActivity]

NoCall == [details |-> "ok", transfers |-> "ok", activity |-> NoActivity]
NoResult == [called |-> FALSE, raised |-> FALSE, validation_status |-> "none",
             transaction_count |-> 0]

\* The longest list of transactions analysed.
MaxTransfers == 6

\* The amounts of the transfers, in whole tokens.
TransferAmounts == {1, 2, 10}

\* A transaction carries an amount float() takes, or one it raises
\* ValueError or TypeError on.
Transactions ==
    {[parsed |-> TRUE, amount |-> a] : a \in TransferAmounts}
        \cup {[parsed |-> FALSE, amount |-> 0]}

TransactionLists == UNION {[1..n -> Transactions] : n \in 0..MaxTransfers}

RECURSIVE ParsedAmounts(_)
\* The loop over the transactions: the amounts float() takes, in order.
ParsedAmounts(transactions) ==
    IF transactions = <<>> THEN <<>>
    ELSE IF Head(transactions).parsed
           THEN <<Head(transactions).amount>> \o ParsedAmounts(Tail(transactions))
           ELSE ParsedAmounts(Tail(transactions))

RECURSIVE AmountSum(_)
AmountSum(amounts) ==
    IF amounts = <<>> THEN 0 ELSE Head(amounts) + AmountSum(Tail(amounts))

RECURSIVE AmountSquares(_)
AmountSquares(amounts) ==
    IF amounts = <<>> THEN 0
    ELSE Head(amounts) * Head(amounts) + AmountSquares(Tail(amounts))

\* amount >= avg_amount + 2 * std_dev.
OverWhaleThreshold_AtLeast(amount, amounts) ==
    LET n == Len(amounts)
        over_mean == n * amount - AmountSum(amounts)
        spread == n * AmountSquares(amounts) - AmountSum(amounts) * AmountSum(amounts)
    IN  IF n = 1 THEN over_mean >= 0
        ELSE /\ over_mean >= 0
             /\ over_mean * over_mean * (n - 1) >= 4 * n * spread

\* amount > avg_amount + 2 * std_dev, for a whole amount and a list that is
\* not empty.  With n amounts of sum s and sum of squares q, avg_amount is
\* s / n and statistics.stdev is sqrt((n q - s s) / (n (n - 1))), taken as
\* 0 for one amount; the comparison is made exactly, times n and squared.
OverWhaleThreshold(amount, amounts) ==
    LET n == Len(amounts)
        over_mean == n * amount - AmountSum(amounts)
        spread == n * AmountSquares(amounts) - AmountSum(amounts) * AmountSum(amounts)
    IN  IF n = 1 THEN over_mean > 0
        ELSE /\ over_mean > 0
             /\ over_mean * over_mean * (n - 1) > 4 * n * spread

\* What analyze_whale_activity returns when no amount was parsed.
EmptyAnalysis == [whale_threshold |-> 0, whale_count |-> 0,
                  average_transaction |-> <<0, 1>>]

\* analyze_whale_activity(transactions).  whale_threshold is given in whole
\* tokens, rounded down; average_transaction as <<sum, number>>.
analyze_whale_activity(transactions) ==
    LET amounts == ParsedAmounts(transactions)
    IN  IF amounts = <<>> THEN EmptyAnalysis
        ELSE [whale_threshold |->
                CHOOSE k \in 0..(3 * AmountSum(amounts)) :
                    /\ ~OverWhaleThreshold(k, amounts)
                    /\ OverWhaleThreshold(k + 1, amounts),
              whale_count |->
                Cardinality({i \in DOMAIN amounts :
                                OverWhaleThreshold(amounts[i], amounts)}),
              average_transaction |-> <<AmountSum(amounts), Len(amounts)>>]

NoWhales == [called |-> FALSE, analysis |-> EmptyAnalysis]

ValInit ==
    /\ o_call = NoCall
    /\ o_result = NoResult
    /\ o_transactions = <<>>
    /\ o_whales = NoWhales

\* The lists of transactions analyze_whale_activity is called on.
WhaleInit ==
    /\ o_call = NoCall
    /\ o_result = NoResult
    /\ o_transactions \in TransactionLists
    /\ o_whales = NoWhales

\* One call of analyze_whale_activity on the transactions.
AnalyzeWhaleActivity ==
    /\ o_whales' = [called |-> TRUE,
                    analysis |-> analyze_whale_activity(o_transactions)]
    /\ UNCHANGED <<o_call, o_result, o_transactions>>

\* validate_signal(network, contract_address).
ValidateSignal ==
    \E details \in ProviderOutcomes, transfers \in ProviderOutcomes,
       activity \in ValidatorActivities :
        LET token_details == fetch_token_details(details)
            transactions == fetch_recent_transactions(transfers, activity)
        IN  /\ o_call' = [details |-> details, transfers |-> transfers,
                          activity |-> activity]
            /\ o_result' =
                 IF token_details.raised \/ transactions.raised
                   THEN [NoResult EXCEPT !.called = TRUE, !.raised = TRUE]
                   ELSE [called |-> TRUE, raised |-> FALSE,
                         validation_status |-> validate_signal(transactions.activity),
                         transaction_count |-> transactions.activity.tx_count]
            /\ UNCHANGED <<o_transactions, o_whales>>

(***************************************************************************)
(* SocialSentimentMonitor  (server/social_monitor.py)                      *)
(***************************************************************************)
VARIABLES
    m_now,        \* datetime.now(), in minutes
    m_data,       \* self.sentiment_data: token -> record, with its mentions
    m_cache,      \* Redis hash sentiment:{token}
    m_signals,    \* Redis list trading_signals, newest first
    m_chain       \* the on-chain activity of each token's contract

monVars == <<m_now, m_data, m_cache, m_signals, m_chain>>

\* The tokens of token_patterns the model follows.
MonitorTokens == {"DOGE"}

\* The clock of the model advances in steps of TickMinutes, up to MaxTime.
TickMinutes == 15
MaxTime == 135
\* The clock under SpecScore stops once a window has passed.
MaxScoreTime == 45
\* Mentions kept for one token, and signals kept in trading_signals.
MaxWindowMentions == 5
MaxSignals == 1

WindowMinutes == 30
CleanupMinutes == 120
MinFollowers == 50000
MinSentimentScore == 80
MinMentionCount == 5
MaxMarketCap == 10000000

\* The tweets of the stream: followers, engagement parts, and the sentiment
\* analyze_sentiment gives the text, in hundredths.
Tweets ==
    { [followers |-> 50000,   likes |-> 0,   retweets |-> 0,   replies |-> 0, sentiment |-> 80],
      [followers |-> 1000000, likes |-> 500, retweets |-> 200, replies |-> 100, sentiment |-> 50],
      [followers |-> 49999,   likes |-> 900, retweets |-> 0,   replies |-> 0, sentiment |-> 100] }

\* The lookups of a market cap: the token has no CoinGecko id, the request
\* raises, the answer is not a 200, the answer is a 200 whose market cap is
\* missing or not a number, and the answer is a 200 with a market cap.
CapLookups ==
    {[outcome |-> o, usd |-> 0] : o \in {"unknown_token", "unreachable", "http_error",
                                         "malformed"}}
        \cup {[outcome |-> "ok", usd |-> cap] : cap \in {0, 10000000, 10000001}}

\* get_token_market_cap: the market cap of a 200, and 0.0 otherwise.
get_token_market_cap(lookup) == IF lookup.outcome = "ok" THEN lookup.usd ELSE 0

\* What get_token_market_cap can return: 0.0 when the lookup fails.
MarketCaps == {get_token_market_cap(lookup) : lookup \in CapLookups}

\* calculate_engagement: likes + 2 * retweets + replies.
calculate_engagement(tweet) == tweet.likes + (tweet.retweets * 2) + tweet.replies

\* The weight of a mention, followers / 1000000 + engagement / 1000, in
\* twentieths (the tweets of the model give whole twentieths).
MentionWeight(followers, engagement) == (followers \div 50000) + (engagement \div 50)

RECURSIVE SumOver(_, _)
\* sum(f(m) for m in mentions), for a sequence of mentions and f a field
\* selector: "w" for the weight, "sw" for sentiment * weight.
SumOver(mentions, what) ==
    IF mentions = <<>> THEN 0
    ELSE (IF what = "w" THEN Head(mentions).weight
          ELSE Head(mentions).sentiment * Head(mentions).weight)
         + SumOver(Tail(mentions), what)

\* No mention is removed.
PurgeWindow_KeepAll(mentions, cutoff) == mentions

\* The mentions newer than the cutoff, in their order.
PurgeWindow(mentions, cutoff) == SelectSeq(mentions, LAMBDA m : m.timestamp > cutoff)

NoData ==
    [present |-> FALSE, mentions |-> <<>>, score_num |-> 0, score_den |-> 1,
     total_weight |-> 0, influencer_count |-> 0, last_updated |-> 0]

NoCache ==
    [present |-> FALSE, score_num |-> 0, score_den |-> 1, influencer_count |-> 0,
     market_cap |-> 0, last_updated |-> 0]

\* The market cap asked for again when it is unknown.
SignalCondition_KnownCap(score_num, score_den, mention_count, market_cap) ==
    /\ score_num >= MinSentimentScore * score_den
    /\ mention_count >= MinMentionCount
    /\ market_cap > 0
    /\ market_cap <= MaxMarketCap

\* score >= 0.8 and count >= 5 and market cap <= 10M, the score being
\* score_num / score_den hundredths.
SignalCondition(score_num, score_den, mention_count, market_cap) ==
    /\ score_num >= MinSentimentScore * score_den
    /\ mention_count >= MinMentionCount
    /\ market_cap <= MaxMarketCap

\* _check_trading_signal with a confidence that is not capped at 1.0.
check_trading_signal_NoCap(signals, token, score_num, score_den, mention_count, market_cap) ==
    IF SignalCondition(score_num, score_den, mention_count, market_cap)
      THEN << [type |-> "BUY_SIGNAL", symbol |-> token,
               score_num |-> score_num, score_den |-> score_den,
               influencer_count |-> mention_count, market_cap |-> market_cap,
               conf_num |-> score_num * mention_count,
               conf_den |-> score_den * 1000] >> \o signals
      ELSE signals

\* _check_trading_signal: the trading_signals list after the check.
\* confidence = min(1.0, score * count / 10), kept as conf_num / conf_den.
check_trading_signal(signals, token, score_num, score_den, mention_count, market_cap) ==
    IF SignalCondition(score_num, score_den, mention_count, market_cap)
      THEN LET cn == score_num * mention_count
               cd == score_den * 1000
           IN  << [type |-> "BUY_SIGNAL", symbol |-> token,
                   score_num |-> score_num, score_den |-> score_den,
                   influencer_count |-> mention_count, market_cap |-> market_cap,
                   conf_num |-> IF cn > cd THEN 1 ELSE cn,
                   conf_den |-> IF cn > cd THEN 1 ELSE cd] >> \o signals
      ELSE signals

MonInit ==
    /\ m_now = 0
    /\ m_data = [t \in MonitorTokens |-> NoData]
    /\ m_cache = [t \in MonitorTokens |-> NoCache]
    /\ m_signals = <<>>
    /\ m_chain \in [MonitorTokens -> MonitoredActivities]

\* Time passes.
Tick ==
    /\ m_now + TickMinutes <= MaxTime
    /\ m_now' = m_now + TickMinutes
    /\ UNCHANGED <<m_data, m_cache, m_signals, m_chain>>

\* The calls of update_sentiment_score that do not come from process_tweet:
\* a mention without weight, one of full sentiment and one of none.
ScoreCalls ==
    { [sentiment |-> 100, engagement |-> 0,    followers |-> 0],
      [sentiment |-> 100, engagement |-> 0,    followers |-> 50000],
      [sentiment |-> 0,   engagement |-> 1000, followers |-> 0] }

\* The window gets a score whatever its weight.
WindowHasWeight_Any(mentions, total_weight) == mentions # <<>>

\* update_sentiment_score computes a score when the window has mentions and
\* their total weight is positive.
WindowHasWeight(mentions, total_weight) == mentions # <<>> /\ total_weight > 0

\* The count taken as the number of the minutes the mentions fall in, which
\* update_sentiment_score computes and leaves aside.
MentionCount_Minutes(mentions) ==
    Cardinality({mentions[i].timestamp : i \in DOMAIN mentions})

\* len(mentions): the count update_sentiment_score stores as
\* influencer_count, publishes and hands to _check_trading_signal.
MentionCount(mentions) == Len(mentions)

\* update_sentiment_score, with the get_token_market_cap,
\* update_sentiment_cache and _check_trading_signal it goes on to when the
\* window has weight.
UpdateSentimentScore(token, sentiment, engagement, followers, market_cap) ==
    LET mention == [timestamp |-> m_now, sentiment |-> sentiment,
                    weight |-> MentionWeight(followers, engagement)]
        old == IF m_data[token].present THEN m_data[token].mentions ELSE <<>>
        mentions == PurgeWindow(Append(old, mention), m_now - WindowMinutes)
        total_weight == SumOver(mentions, "w")
        total_weighted == SumOver(mentions, "sw")
    IN  /\ Len(mentions) <= MaxWindowMentions
        /\ IF WindowHasWeight(mentions, total_weight)
             THEN /\ Len(check_trading_signal(m_signals, token, total_weighted,
                              total_weight, MentionCount(mentions), market_cap)) <= MaxSignals
                  /\ m_data' = [m_data EXCEPT ![token] =
                        [present |-> TRUE, mentions |-> mentions,
                         score_num |-> total_weighted, score_den |-> total_weight,
                         total_weight |-> total_weight,
                         influencer_count |-> MentionCount(mentions),
                         last_updated |-> m_now]]
                  /\ m_cache' = [m_cache EXCEPT ![token] =
                        [present |-> TRUE, score_num |-> total_weighted,
                         score_den |-> total_weight,
                         influencer_count |-> MentionCount(mentions),
                         market_cap |-> market_cap, last_updated |-> m_now]]
                  /\ m_signals' = check_trading_signal(m_signals, token,
                        total_weighted, total_weight, MentionCount(mentions), market_cap)
             ELSE /\ m_data' = [m_data EXCEPT ![token] =
                        [(IF @.present THEN @ ELSE [NoData EXCEPT !.last_updated = m_now])
                            EXCEPT !.present = TRUE, !.mentions = mentions]]
                  /\ UNCHANGED <<m_cache, m_signals>>
        /\ UNCHANGED <<m_now, m_chain>>

\* process_tweet for a tweet that mentions one token: tweets of accounts
\* under 50,000 followers are dropped, the others go to
\* update_sentiment_score.
ProcessTweet(token, tweet, market_cap) ==
    IF tweet.followers < MinFollowers
      THEN UNCHANGED monVars
      ELSE UpdateSentimentScore(token, tweet.sentiment, calculate_engagement(tweet),
                                tweet.followers, market_cap)

\* cleanup_old_data: tokens not updated for two hours are forgotten.
CleanupOldData ==
    /\ \E t \in MonitorTokens :
         m_data[t].present /\ m_data[t].last_updated < m_now - CleanupMinutes
    /\ m_data' = [t \in MonitorTokens |->
                    IF m_data[t].present /\ m_data[t].last_updated < m_now - CleanupMinutes
                      THEN NoData ELSE m_data[t]]
    /\ m_cache' = [t \in MonitorTokens |->
                    IF m_data[t].present /\ m_data[t].last_updated < m_now - CleanupMinutes
                      THEN NoCache ELSE m_cache[t]]
    /\ UNCHANGED <<m_now, m_signals, m_chain>>


(***************************************************************************)
(* SimpleTradingService  (server/simple_trading_service.py)                *)
(***************************************************************************)
VARIABLES
    s_sentiment,   \* self.sentiment_data: symbol -> sentimentScore, influencerCount, marketCap
    s_positions,   \* self.positions
    s_portfolio,   \* self.portfolio: daily_pnl, total_value, active_positions
    s_auto,        \* self.config['auto_trading_enabled']
    s_updates      \* number of sentiment updates made so far

simpleVars == <<s_sentiment, s_positions, s_portfolio, s_auto, s_updates>>

\* The keys of self.sentiment_data, in the order of the dictionary.
SimpleSymbols == <<"DOGECOIN", "SHIBA", "PEPE", "FLOKI">>

SimpleSentimentInit ==
    [sym \in {"DOGECOIN", "SHIBA", "PEPE", "FLOKI"} |->
        CASE sym = "DOGECOIN" -> [sentimentScore |-> 65, influencerCount |-> 12, marketCap |-> 45000000]
          [] sym = "SHIBA"    -> [sentimentScore |-> 58, influencerCount |-> 8,  marketCap |-> 12000000]
          [] sym = "PEPE"     -> [sentimentScore |-> 72, influencerCount |-> 15, marketCap |-> 8500000]
          [] sym = "FLOKI"    -> [sentimentScore |-> 61, influencerCount |-> 9,  marketCap |-> 6200000]]

SimpleMaxPositions == 5
SimpleMinSentimentScore == 80
SimpleMinInfluencers == 10

\* The random draws of update_sentiment_data the model follows: the change
\* of a score, in hundredths, and the change of an influencer count.
ScoreDeltas == {0, 5}
InfluencerDeltas == {0}
\* The change of the daily P&L update_portfolio_data draws, in dollars.
DailyChanges == {-100, 100}
\* Sentiment updates the model follows.
MaxSentimentUpdates == 4

\* The commands handle_command knows, and one it does not.
CommandTypes ==
    {"get_portfolio", "get_positions", "get_sentiment", "enable_auto_trading",
     "emergency_stop", "unknown"}

Max2(a, b) == IF a >= b THEN a ELSE b
Min2(a, b) == IF a <= b THEN a ELSE b

SimpleInit ==
    /\ s_sentiment = SimpleSentimentInit
    /\ s_positions = <<>>
    /\ s_portfolio = [total_value |-> 10000, daily_pnl |-> 0, active_positions |-> 0]
    /\ s_auto = FALSE
    /\ s_updates = 0

\* One iteration of update_portfolio_data.
UpdatePortfolioData ==
    /\ \E daily_change \in DailyChanges :
         s_portfolio' = [s_portfolio EXCEPT !.daily_pnl = daily_change,
                                            !.total_value = 10000 + daily_change]
    /\ UNCHANGED <<s_sentiment, s_positions, s_auto, s_updates>>

\* One iteration of update_sentiment_data: every symbol's score moves by a
\* random amount and is clamped to [0.1, 1.0]; the influencer count stays
\* at least 1.
UpdateSentimentData ==
    /\ s_updates < MaxSentimentUpdates
    /\ s_updates' = s_updates + 1
    /\ \E ds \in [DOMAIN s_sentiment -> ScoreDeltas],
          di \in [DOMAIN s_sentiment -> InfluencerDeltas] :
         s_sentiment' = [sym \in DOMAIN s_sentiment |->
            [s_sentiment[sym] EXCEPT
               !.sentimentScore = Max2(10, Min2(100, @ + ds[sym])),
               !.influencerCount = Max2(1, @ + di[sym])]]
    /\ UNCHANGED <<s_positions, s_portfolio, s_auto>>

\* execute_trade: the position appended for a symbol.
SimplePosition(symbol) == [symbol |-> symbol, side |-> "LONG", size |-> 100]

RECURSIVE MonitorSymbols(_, _)
\* The loop of monitor_trading_signals over the symbols from index i on:
\* the positions list after it.
MonitorSymbols(positions, i) ==
    IF i > Len(SimpleSymbols) THEN positions
    ELSE LET data == s_sentiment[SimpleSymbols[i]]
         IN  IF /\ data.sentimentScore > SimpleMinSentimentScore
                /\ data.influencerCount >= SimpleMinInfluencers
                /\ Len(positions) < SimpleMaxPositions
               THEN MonitorSymbols(Append(positions, SimplePosition(SimpleSymbols[i])), i + 1)
               ELSE MonitorSymbols(positions, i + 1)

\* One iteration of monitor_trading_signals.
MonitorTradingSignals ==
    /\ s_auto
    /\ s_positions' = MonitorSymbols(s_positions, 1)
    /\ s_portfolio' = IF s_positions' = s_positions THEN s_portfolio
                      ELSE [s_portfolio EXCEPT !.active_positions = Len(s_positions')]
    /\ UNCHANGED <<s_sentiment, s_auto, s_updates>>

\* handle_command.
HandleCommand(cmd_type, enabled) ==
    /\ s_auto' = IF cmd_type = "enable_auto_trading" THEN enabled
                 ELSE IF cmd_type = "emergency_stop" THEN FALSE
                 ELSE s_auto
    /\ UNCHANGED <<s_sentiment, s_positions, s_portfolio, s_updates>>


(***************************************************************************)
(* MemeTrader  (server/trading_engine.py)                                  *)
(*                                                                         *)
(* The venue (the trading node) is the environment: it fills submitted     *)
(* orders at times of its choosing and reports PositionOpened and          *)
(* PositionClosed.  Quantities are counted in orders: every order of one   *)
(* symbol has the quantity of the entry.                                   *)
(***************************************************************************)
VARIABLES
    t_active,     \* the keys of self.active_positions
    t_buys,       \* symbol -> market BUY orders submitted and not yet filled
    t_risk,       \* symbol -> working protective SELL orders: stop, limit
    t_qty,        \* symbol -> net quantity of the venue's position
    t_history,    \* Redis list trade_history, newest first
    t_fills,      \* protective orders filled so far
    t_orders      \* symbol -> BUY orders submitted so far

memeVars == <<t_active, t_buys, t_risk, t_qty, t_history, t_fills, t_orders>>

\* Six of the eight pairs of _subscribe_to_instruments.
MemeSymbols == {"DOGE", "SHIB", "PEPE", "FLOKI", "BONK", "WIF"}

max_positions == 5
min_sentiment_score == 80
min_influencer_count == 5
max_market_cap == 10000000
SentimentMaxAge == 30

\* BUY orders the model lets one symbol receive, and protective orders it
\* lets the venue fill.
MaxBuysPerSymbol == 1
MaxRiskFills == 2

\* What hgetall sentiment:{symbol} can return: nothing, or a record with a
\* score in hundredths, an influencer count, a market cap and an age in
\* minutes.
SentimentRead(present, score, count, cap, age) ==
    [present |-> present, score |-> score, influencer_count |-> count,
     market_cap |-> cap, age |-> age]

SentimentReads ==
    { SentimentRead(FALSE, 0, 0, 0, 0),
      SentimentRead(TRUE, 80, 5, 10000000, 30),
      SentimentRead(TRUE, 79, 5, 10000000, 30),
      SentimentRead(TRUE, 80, 4, 10000000, 30),
      SentimentRead(TRUE, 80, 5, 10000001, 30),
      SentimentRead(TRUE, 80, 5, 10000000, 31) }

\* The condition of _check_trading_signal under which a buy is executed.
MemeSignal(sd, active) ==
    /\ sd.present
    /\ sd.age <= SentimentMaxAge
    /\ sd.score >= min_sentiment_score
    /\ sd.influencer_count >= min_influencer_count
    /\ sd.market_cap <= max_market_cap
    /\ Cardinality(active) < max_positions

MemeInit ==
    /\ t_active = {}
    /\ t_buys = [sym \in MemeSymbols |-> 0]
    /\ t_risk = [sym \in MemeSymbols |-> [stop |-> 0, limit |-> 0]]
    /\ t_qty = [sym \in MemeSymbols |-> 0]
    /\ t_history = <<>>
    /\ t_fills = 0
    /\ t_orders = [sym \in MemeSymbols |-> 0]

\* on_quote_tick: _check_trading_signal, and on a signal _execute_buy_order
\* with _setup_risk_orders.
OnQuoteTick(symbol, sd) ==
    /\ t_orders[symbol] < MaxBuysPerSymbol
    /\ IF MemeSignal(sd, t_active)
         THEN /\ t_buys' = [t_buys EXCEPT ![symbol] = @ + 1]
              /\ t_risk' = [t_risk EXCEPT ![symbol] =
                               [stop |-> @.stop + 1, limit |-> @.limit + 1]]
              /\ t_orders' = [t_orders EXCEPT ![symbol] = @ + 1]
         ELSE UNCHANGED <<t_buys, t_risk, t_orders>>
    /\ UNCHANGED <<t_active, t_qty, t_history, t_fills>>

\* on_event for the events of one fill that moves the net quantity of a
\* symbol from q to q2: _handle_position_opened when a position appears,
\* _handle_position_closed when it disappears.
OnFillEvents(symbol, q, q2) ==
    /\ t_active' = IF q = 0 /\ q2 # 0 THEN t_active \cup {symbol}
                   ELSE IF q # 0 /\ q2 = 0 THEN t_active \ {symbol}
                   ELSE t_active
    /\ t_history' = IF q # 0 /\ q2 = 0
                      THEN <<[symbol |-> symbol,
                              side |-> IF q > 0 THEN "LONG" ELSE "SHORT"]>> \o t_history
                      ELSE t_history

\* The venue fills a market BUY order.
FillBuy(symbol) ==
    /\ t_buys[symbol] > 0
    /\ t_buys' = [t_buys EXCEPT ![symbol] = @ - 1]
    /\ t_qty' = [t_qty EXCEPT ![symbol] = @ + 1]
    /\ OnFillEvents(symbol, t_qty[symbol], t_qty[symbol] + 1)
    /\ UNCHANGED <<t_risk, t_fills, t_orders>>

\* The venue fills a protective SELL order: the stop order or the limit
\* order.
FillRisk(symbol, which) ==
    /\ t_fills < MaxRiskFills
    /\ t_risk[symbol][which] > 0
    /\ t_risk' = [t_risk EXCEPT ![symbol][which] = @ - 1]
    /\ t_qty' = [t_qty EXCEPT ![symbol] = @ - 1]
    /\ t_fills' = t_fills + 1
    /\ OnFillEvents(symbol, t_qty[symbol], t_qty[symbol] - 1)
    /\ UNCHANGED <<t_buys, t_orders>>


(***************************************************************************)
(* TradingService  (server/python_service.py)                              *)
(*                                                                         *)
(* The service is a set of asyncio tasks over one Redis store.  A task     *)
(* runs alone between two awaits, so one action is the code from the       *)
(* answer of one Redis command to the sending of the next, which reads or  *)
(* writes the store.  Commands on keys nothing reads back (sentiment:*,    *)
(* notifications:1) and the sleeps are left out: the tokens of a loop      *)
(* iteration that draw no signal, and the iterations that change nothing,  *)
(* are steps that change no variable.                                      *)
(***************************************************************************)
VARIABLES
    is_running,    \* self.is_running
    r_positions,   \* Redis list positions:1, head first
    r_trades,      \* Redis list trades:1, head first
    r_portfolio,   \* Redis hash portfolio:1, money in cents
    soc,           \* the tasks running _social_monitoring_loop
    rf,            \* the task running _portfolio_update_loop
    mo,            \* the task running _position_monitoring_loop
    v_signals,     \* qualifying sentiment draws so far
    v_moves,       \* non-zero price changes drawn so far
    v_manual,      \* random exits drawn so far
    v_budget       \* the draws this run may make

svcVars == <<is_running, r_positions, r_trades, r_portfolio, soc, rf, mo,
             v_signals, v_moves, v_manual, v_budget>>

\* The tasks that run _social_monitoring_loop: the one created by
\* _start_social_monitoring during initialize, and the one start passes to
\* asyncio.gather.
SocialTasks == {"created", "gathered"}

\* Two of the five tokens of _simulate_sentiment_data.
ServiceTokens == {"DOGE", "PEPE"}

\* The entry prices (in tenths of a millionth of a dollar, one digit more
\* than the six the service stores) the model draws from
\* random.uniform(0.0001, 0.1), and the price changes, in percent, it draws
\* from random.uniform(-0.05, 0.05).
EntryPrices == {1000}
\* Entry prices between and at the ends of the range of the draw, for the
\* runs that only open positions.
OpenEntryPrices == {1000, 1004, 1005, 1006, 1014, 500005, 999996, 1000000}
PriceChanges == {-5, 0, 5}

\* Budgets of the random draws, and of the closing trades.  A run spends its
\* draws on qualifying signals, on price moves or on random exits.
MaxServiceSignals == 2
MaxPriceMoves == 6
MaxManualExits == 2
MaxCloses == 3
DrawBudgets ==
    { [signals |-> MaxServiceSignals, moves |-> 0, manual |-> 0],
      [signals |-> 1, moves |-> MaxPriceMoves, manual |-> 0],
      [signals |-> 1, moves |-> 1, manual |-> MaxManualExits] }

PositionValue == 10000
StartBalance == 1000000
MaxServicePositions == 5

\* round(n / d) as Python rounds: to the nearest, ties to the even one.
RoundDiv(n, d) ==
    LET q == n \div d
        r == n % d
    IN  IF 2 * r < d THEN q
        ELSE IF 2 * r > d THEN q + 1
        ELSE IF q % 2 = 0 THEN q ELSE q + 1

\* position_size = 100.00 / entry_price, in tokens.
PositionSize(entry) == (100 * 1000000) \div entry
\* round(entry_price, 6), in millionths, of a drawn entry price.
StoredPrice(entry) == RoundDiv(entry, 10)
\* The stop-loss price set 15% above the entry price.
StopLossPrice_Above(entry) == RoundDiv(entry * 115, 1000)
\* round(entry_price * 0.85, 6) and round(entry_price * 1.30, 6).
StopLossPrice(entry) == RoundDiv(entry * 85, 1000)
TakeProfitPrice(entry) == RoundDiv(entry * 130, 1000)
\* round(current_price * (1 + price_change), 6).
MovedPrice(price, change) == RoundDiv(price * (100 + change), 100)
\* round((new_price - entry_price) * size, 2), in cents.
PositionPnl(price, entry) == RoundDiv((price - entry) * PositionSize(entry), 10000)

\* position_data of _execute_simulated_trade.
NewPosition(id, token, entry) ==
    [id |-> id, symbol |-> token, status |-> "open", entryPrice |-> StoredPrice(entry),
     currentPrice |-> StoredPrice(entry), pnl |-> 0, stopLoss |-> StopLossPrice(entry),
     takeProfit |-> TakeProfitPrice(entry), exitReason |-> "none"]

\* The indices after i of the open positions of a snapshot.
OpenAfter(snap, i) == {j \in (i + 1)..Len(snap) : snap[j].status = "open"}

SellCount(trades) == Cardinality({n \in DOMAIN trades : trades[n].type = "SELL"})

IdleSocial == [pc |-> "idle", token |-> "none", id |-> 0, entry |-> 0,
               balance |-> 0, margin |-> 0]
IdleRefresh == [pc |-> "idle", snap |-> <<>>, i |-> 0, unrealized |-> 0, active |-> 0]
IdleMonitor == [pc |-> "idle", snap |-> <<>>, i |-> 0, balance |-> 0, margin |-> 0,
                realized |-> 0]

SvcInit ==
    /\ is_running = FALSE
    /\ r_positions = <<>>
    /\ r_trades = <<>>
    /\ r_portfolio = [availableBalance |-> 0, marginUsed |-> 0, realizedPnL |-> 0,
                      unrealizedPnL |-> 0, activePositions |-> 0]
    /\ soc = [k \in SocialTasks |-> IdleSocial]
    /\ rf = IdleRefresh
    /\ mo = IdleMonitor
    /\ v_signals = 0
    /\ v_moves = 0
    /\ v_manual = 0
    /\ v_budget = [signals |-> 0, moves |-> 0, manual |-> 0]

\* run_service: initialize (the default portfolio, the lists cleared, the
\* first social task created) and start (is_running set, the three loops
\* gathered).  The draws of the run are bounded from here on.
RunService ==
    /\ ~is_running
    /\ is_running' = TRUE
    /\ r_portfolio' = [availableBalance |-> StartBalance, marginUsed |-> 0,
                       realizedPnL |-> 0, unrealizedPnL |-> 0, activePositions |-> 0]
    /\ r_positions' = <<>>
    /\ r_trades' = <<>>
    /\ v_budget' \in DrawBudgets
    /\ UNCHANGED <<soc, rf, mo, v_signals, v_moves, v_manual>>

\* _check_trading_signal for a token whose draw meets the three thresholds:
\* the positions are read, and the trade is started unless a stored position
\* mentions the token or five positions are stored.
CheckTradingSignal(k, token) ==
    /\ is_running
    /\ soc[k].pc = "idle"
    /\ v_signals < v_budget.signals
    /\ v_signals' = v_signals + 1
    /\ LET has_position == \E n \in DOMAIN r_positions : r_positions[n].symbol = token
       IN  IF ~has_position /\ Len(r_positions) < MaxServicePositions
             THEN soc' = [soc EXCEPT ![k] = [IdleSocial EXCEPT !.pc = "id", !.token = token]]
             ELSE UNCHANGED soc
    /\ UNCHANGED <<is_running, r_positions, r_trades, r_portfolio, rf, mo, v_moves, v_manual, v_budget>>

\* _execute_simulated_trade: the id is the length of positions:1 plus one.
TradeReadIdFrom(k, prices) ==
    /\ soc[k].pc = "id"
    /\ \E entry \in prices :
         soc' = [soc EXCEPT ![k].pc = "push", ![k].id = Len(r_positions) + 1,
                            ![k].entry = entry]
    /\ UNCHANGED <<is_running, r_positions, r_trades, r_portfolio, rf, mo,
                   v_signals, v_moves, v_manual, v_budget>>

TradeReadId(k) == TradeReadIdFrom(k, EntryPrices)

\* _execute_simulated_trade: lpush of the position.
TradePushPosition(k) ==
    /\ soc[k].pc = "push"
    /\ r_positions' = <<NewPosition(soc[k].id, soc[k].token, soc[k].entry)>> \o r_positions
    /\ soc' = [soc EXCEPT ![k].pc = "trade"]
    /\ UNCHANGED <<is_running, r_trades, r_portfolio, rf, mo, v_signals, v_moves, v_manual, v_budget>>

\* _execute_simulated_trade: lpush of the BUY trade.
TradePushTrade(k) ==
    /\ soc[k].pc = "trade"
    /\ r_trades' = <<[type |-> "BUY", symbol |-> soc[k].token,
                      price |-> StoredPrice(soc[k].entry), pnl |-> 0]>> \o r_trades
    /\ soc' = [soc EXCEPT ![k].pc = "portfolio_read"]
    /\ UNCHANGED <<is_running, r_positions, r_portfolio, rf, mo, v_signals, v_moves, v_manual, v_budget>>

\* _execute_simulated_trade: hgetall of the portfolio.
TradeReadPortfolio(k) ==
    /\ soc[k].pc = "portfolio_read"
    /\ soc' = [soc EXCEPT ![k].pc = "portfolio_write",
                          ![k].balance = r_portfolio.availableBalance,
                          ![k].margin = r_portfolio.marginUsed]
    /\ UNCHANGED <<is_running, r_positions, r_trades, r_portfolio, rf, mo,
                   v_signals, v_moves, v_manual, v_budget>>

\* _execute_simulated_trade: hset of the portfolio.
TradeWritePortfolio(k) ==
    /\ soc[k].pc = "portfolio_write"
    /\ r_portfolio' = [r_portfolio EXCEPT
                          !.availableBalance = soc[k].balance - PositionValue,
                          !.marginUsed = soc[k].margin + PositionValue]
    /\ soc' = [soc EXCEPT ![k] = IdleSocial]
    /\ UNCHANGED <<is_running, r_positions, r_trades, rf, mo, v_signals, v_moves, v_manual, v_budget>>

\* _update_portfolio_metrics: lrange of the positions (and hgetall of the
\* portfolio).
RefreshRead ==
    /\ is_running
    /\ rf.pc = "idle"
    /\ rf' = [IdleRefresh EXCEPT !.pc = "update", !.snap = r_positions]
    /\ UNCHANGED <<is_running, r_positions, r_trades, r_portfolio, soc, mo,
                   v_signals, v_moves, v_manual, v_budget>>

\* The record _update_portfolio_metrics writes back for a position it read.
Repriced(position, change) ==
    [position EXCEPT
        !.currentPrice = MovedPrice(position.currentPrice, change),
        !.pnl = PositionPnl(MovedPrice(position.currentPrice, change),
                            position.entryPrice)]

\* _update_portfolio_metrics: the next open position of the snapshot gets a
\* new price and is written back at its index of the snapshot.
RefreshUpdate ==
    /\ rf.pc = "update"
    /\ OpenAfter(rf.snap, rf.i) # {}
    /\ LET j == CHOOSE n \in OpenAfter(rf.snap, rf.i) :
                  \A o \in OpenAfter(rf.snap, rf.i) : n <= o
       IN  \E change \in PriceChanges :
             /\ change # 0 => v_moves < v_budget.moves
             /\ v_moves' = IF change # 0 THEN v_moves + 1 ELSE v_moves
             /\ r_positions' = [r_positions EXCEPT ![j] = Repriced(rf.snap[j], change)]
             /\ rf' = [rf EXCEPT !.i = j,
                                 !.unrealized = @ + Repriced(rf.snap[j], change).pnl,
                                 !.active = @ + 1]
    /\ UNCHANGED <<is_running, r_trades, r_portfolio, soc, mo, v_signals, v_manual, v_budget>>

\* _update_portfolio_metrics: hset of the totals.
RefreshTotals ==
    /\ rf.pc = "update"
    /\ OpenAfter(rf.snap, rf.i) = {}
    /\ r_portfolio' = [r_portfolio EXCEPT !.unrealizedPnL = rf.unrealized,
                                         !.activePositions = rf.active]
    /\ rf' = IdleRefresh
    /\ UNCHANGED <<is_running, r_positions, r_trades, soc, mo, v_signals, v_moves, v_manual, v_budget>>

\* _monitor_positions: lrange of the positions.
MonitorRead ==
    /\ is_running
    /\ mo.pc = "idle"
    /\ mo' = [IdleMonitor EXCEPT !.pc = "scan", !.snap = r_positions]
    /\ UNCHANGED <<is_running, r_positions, r_trades, r_portfolio, soc, rf,
                   v_signals, v_moves, v_manual, v_budget>>

\* _monitor_positions without its first branch: the stop-loss price is not
\* looked at.
ExitReason_NoStopLoss(position, random_exit) ==
    IF position.currentPrice >= position.takeProfit THEN "take_profit"
    ELSE IF random_exit THEN "manual"
    ELSE "none"

\* The exit reason of one evaluation of a position by _monitor_positions,
\* "none" when it stays open; random_exit is random.random() < 0.001.
ExitReason(position, random_exit) ==
    IF position.currentPrice <= position.stopLoss THEN "stop_loss"
    ELSE IF position.currentPrice >= position.takeProfit THEN "take_profit"
    ELSE IF random_exit THEN "manual"
    ELSE "none"

\* The record _close_position writes for a position.
Closed(position, reason) ==
    [position EXCEPT !.status = "closed", !.exitReason = reason]

\* _monitor_positions goes through the snapshot up to the next position
\* with an exit reason, and _close_position writes it back, closed, at its
\* index of the snapshot.
MonitorClose ==
    /\ mo.pc = "scan"
    /\ SellCount(r_trades) < MaxCloses
    /\ \E j \in OpenAfter(mo.snap, mo.i), random_exit \in BOOLEAN :
         /\ \A o \in OpenAfter(mo.snap, mo.i) :
                o < j => ExitReason(mo.snap[o], FALSE) = "none"
         /\ ExitReason(mo.snap[j], random_exit) # "none"
         /\ ExitReason(mo.snap[j], random_exit) = "manual" => v_manual < v_budget.manual
         /\ v_manual' = IF ExitReason(mo.snap[j], random_exit) = "manual"
                          THEN v_manual + 1 ELSE v_manual
         /\ r_positions' = [r_positions EXCEPT
                               ![j] = Closed(mo.snap[j], ExitReason(mo.snap[j], random_exit))]
         /\ mo' = [mo EXCEPT !.pc = "trade", !.i = j]
    /\ UNCHANGED <<is_running, r_trades, r_portfolio, soc, rf, v_signals, v_moves, v_budget>>

\* _monitor_positions finds no further position to close.
MonitorDone ==
    /\ mo.pc = "scan"
    /\ \A o \in OpenAfter(mo.snap, mo.i) : ExitReason(mo.snap[o], FALSE) = "none"
    /\ mo' = IdleMonitor
    /\ UNCHANGED <<is_running, r_positions, r_trades, r_portfolio, soc, rf,
                   v_signals, v_moves, v_manual, v_budget>>

\* _close_position: lpush of the SELL trade.
ClosePushTrade ==
    /\ mo.pc = "trade"
    /\ r_trades' = <<[type |-> "SELL", symbol |-> mo.snap[mo.i].symbol,
                      price |-> mo.snap[mo.i].currentPrice,
                      pnl |-> mo.snap[mo.i].pnl]>> \o r_trades
    /\ mo' = [mo EXCEPT !.pc = "portfolio_read"]
    /\ UNCHANGED <<is_running, r_positions, r_portfolio, soc, rf, v_signals, v_moves, v_manual, v_budget>>

\* _close_position: hgetall of the portfolio.
CloseReadPortfolio ==
    /\ mo.pc = "portfolio_read"
    /\ mo' = [mo EXCEPT !.pc = "portfolio_write",
                        !.balance = r_portfolio.availableBalance,
                        !.margin = r_portfolio.marginUsed,
                        !.realized = r_portfolio.realizedPnL]
    /\ UNCHANGED <<is_running, r_positions, r_trades, r_portfolio, soc, rf,
                   v_signals, v_moves, v_manual, v_budget>>

\* _close_position: hset of the portfolio; the scan goes on.
CloseWritePortfolio ==
    /\ mo.pc = "portfolio_write"
    /\ r_portfolio' = [r_portfolio EXCEPT
          !.availableBalance = mo.balance + PositionValue + mo.snap[mo.i].pnl,
          !.marginUsed = Max2(0, mo.margin - PositionValue),
          !.realizedPnL = mo.realized + mo.snap[mo.i].pnl]
    /\ mo' = [mo EXCEPT !.pc = "scan", !.balance = 0, !.margin = 0, !.realized = 0]
    /\ UNCHANGED <<is_running, r_positions, r_trades, soc, rf, v_signals, v_moves, v_manual, v_budget>>


(***************************************************************************)
(* The admission of a signal: _check_trading_signal of TradingService      *)
(* (server/python_service.py) and of SocialSentimentMonitor                *)
(* (server/social_monitor.py), one evaluation at a time.                   *)
(***************************************************************************)
VARIABLES
    g_positions,  \* the list positions:1 an evaluation reads, newest first
    g_eval        \* the last evaluation: what it was given and what it gave

gateVars == <<g_positions, g_eval>>

\* Three of the five tokens of _simulate_sentiment_data.
GateTokens == {"DOGE", "PEPE", "SHIB"}

\* What an evaluation is given: a score in hundredths, a count of mentions,
\* a market cap, and the tier the validator has for the token (neither
\* _check_trading_signal takes it).  The inputs are one that meets every
\* threshold and those that differ from it in one place.
GateInput(sentiment, mentions, market_cap, tier) ==
    [sentiment |-> sentiment, mentions |-> mentions, market_cap |-> market_cap,
     tier |-> tier]

GateInputs ==
    { GateInput(85, 7, 4000000, "STRONG_VALIDATION"),
      GateInput(80, 7, 4000000, "STRONG_VALIDATION"),
      GateInput(79, 7, 4000000, "STRONG_VALIDATION"),
      GateInput(85, 5, 4000000, "STRONG_VALIDATION"),
      GateInput(85, 3, 4000000, "STRONG_VALIDATION"),
      GateInput(85, 12, 4000000, "STRONG_VALIDATION"),
      GateInput(85, 7, 10000001, "STRONG_VALIDATION"),
      GateInput(85, 7, 4000000, "NO_VALIDATION") }

\* TradingService._check_trading_signal: the three thresholds.
ThresholdsMet(sentiment, mentions, market_cap) ==
    /\ sentiment >= 80
    /\ mentions >= 5
    /\ market_cap <= 10000000

\* any(token in pos for pos in existing_positions): the token occurs in the
\* JSON text of a stored position, which it does as its symbol.
HasPosition(token, existing_positions) ==
    \E n \in DOMAIN existing_positions : existing_positions[n].symbol = token

\* The condition under which TradingService._check_trading_signal executes
\* the trade.
TradeAdmitted(token, sentiment, mentions, market_cap, existing_positions) ==
    /\ ThresholdsMet(sentiment, mentions, market_cap)
    /\ ~HasPosition(token, existing_positions)
    /\ Len(existing_positions) < MaxServicePositions

OpenCount(positions) ==
    Cardinality({n \in DOMAIN positions : positions[n].status = "open"})
HasOpenPosition(token, positions) ==
    \E n \in DOMAIN positions :
        positions[n].symbol = token /\ positions[n].status = "open"

NoSignal == [score_num |-> 0, score_den |-> 1, influencer_count |-> 0,
             conf_num |-> 0, conf_den |-> 1]
NoEvaluation ==
    [evaluated |-> FALSE, service |-> "none", token |-> "none", sentiment |-> 0,
     mentions |-> 0, market_cap |-> 0, tier |-> "none", open_count |-> 0,
     open_on_symbol |-> FALSE, admitted |-> FALSE, returned |-> "None",
     signal |-> NoSignal]

GateInit ==
    /\ g_positions = <<>>
    /\ g_eval = NoEvaluation

\* What an evaluation was given, and the open positions it met.
Evaluation(service, token, sentiment, mentions, market_cap, tier) ==
    [NoEvaluation EXCEPT !.evaluated = TRUE, !.service = service, !.token = token,
                         !.sentiment = sentiment, !.mentions = mentions,
                         !.market_cap = market_cap, !.tier = tier,
                         !.open_count = OpenCount(g_positions),
                         !.open_on_symbol = HasOpenPosition(token, g_positions)]

\* TradingService._check_trading_signal, with the lpush of the position by
\* _execute_simulated_trade when the trade is admitted.  The method returns
\* None in every case.
ServiceCheckTradingSignal(token, sentiment, mentions, market_cap, tier) ==
    LET admitted == TradeAdmitted(token, sentiment, mentions, market_cap, g_positions)
    IN  /\ g_eval' = [Evaluation("trading", token, sentiment, mentions, market_cap, tier)
                         EXCEPT !.admitted = admitted]
        /\ g_positions' = IF admitted
                            THEN <<[symbol |-> token, status |-> "open"]>> \o g_positions
                            ELSE g_positions

\* SocialSentimentMonitor._check_trading_signal: the signal is pushed to
\* trading_signals when the thresholds are met.  The method returns None in
\* every case.
MonitorCheckTradingSignal(token, sentiment, mentions, market_cap, tier) ==
    LET signals == check_trading_signal(<<>>, token, sentiment, 1, mentions, market_cap)
    IN  /\ g_eval' = [Evaluation("monitor", token, sentiment, mentions, market_cap, tier)
                         EXCEPT !.admitted = (signals # <<>>),
                                !.signal = IF signals # <<>>
                                             THEN [score_num |-> signals[1].score_num,
                                                   score_den |-> signals[1].score_den,
                                                   influencer_count |-> signals[1].influencer_count,
                                                   conf_num |-> signals[1].conf_num,
                                                   conf_den |-> signals[1].conf_den]
                                             ELSE NoSignal]
        /\ UNCHANGED g_positions

\* _close_position for one open position of the list.
GateClosePosition(n) ==
    /\ n \in DOMAIN g_positions
    /\ g_positions[n].status = "open"
    /\ g_positions' = [g_positions EXCEPT ![n].status = "closed"]
    /\ UNCHANGED g_eval


(***************************************************************************)
(* StrategyBacktester  (server/strategy_backtest.py)                       *)
(*                                                                         *)
(* Prices are whole dollars, money is cents.  The moving averages and the  *)
(* deviations are compared through sums of integers, which is exact; the   *)
(* exponential averages are kept in hundredths and rounded where the code  *)
(* rounds to the nearest double.  numpy's generator is a state from which  *)
(* every draw takes a value and which every draw advances.                 *)
(***************************************************************************)
VARIABLES
    b_rng,      \* the state of numpy's global generator; -1 before a process runs
    b_source,   \* what the data source answered to the last call
    b_params,   \* the params of the last call of backtest_strategy
    b_result    \* what that call returned

btVars == <<b_rng, b_source, b_params, b_result>>

\* The bars of a series: the code has the 366 days of 2023-01-01 to
\* 2024-01-01, the model the first MaxBars of them.
MaxBars == 30

\* The states numpy seeds itself with when a process starts.
RngModulus == 64
RngSeeds == {7, 21, 42}
\* np.random.seed(42).
SeedValue == 42
\* One draw: the state after it, and the standard normal value it gives, in
\* units of half a deviation.
RngNext(state) == (state * 21 + 7) % RngModulus
RngNormal(state) == (state % 9) - 4

RECURSIVE RngAfter(_, _)
\* The state after a number of draws, half of them first.
RngAfter(state, draws) ==
    IF draws = 0 THEN state
    ELSE IF draws = 1 THEN RngNext(state)
    ELSE LET half == RngAfter(state, draws \div 2)
         IN  IF half \in 0..(RngModulus - 1)
               THEN RngAfter(half, draws - draws \div 2)
             ELSE half

\* base_prices.get(symbol, 100) for a symbol that is not in base_prices.
BasePrice == 100

\* prices.append(prices[-1] * (1 + ret)), ret being the next draw: a daily
\* return of 0.05 percent plus 2 percent a deviation.
NextPrice(walk) ==
    LET ret == 5 + 100 * RngNormal(walk.rng)
    IN  [prices |-> Append(walk.prices,
                           RoundDiv(walk.prices[Len(walk.prices)] * (10000 + ret), 10000)),
         rng |-> RngNext(walk.rng)]

RECURSIVE PriceWalk(_, _, _)
\* The prices of bars lo..hi added to a walk, the bars before the middle
\* first.
PriceWalk(walk, lo, hi) ==
    IF lo > hi THEN walk
    ELSE IF lo = hi THEN NextPrice(walk)
    ELSE LET mid == (lo + hi) \div 2
             left == PriceWalk(walk, lo, mid)
         IN  IF Len(left.prices) = mid THEN PriceWalk(left, mid + 1, hi) ELSE left

\* prices of generate_synthetic_data drawn from a state of the generator:
\* prices[0] is the base price and takes no draw, returns[0] being left
\* out.
SyntheticPrices(state, bars) ==
    PriceWalk([prices |-> <<BasePrice>>, rng |-> RngNext(state)], 2, bars).prices

\* The series ticker.history can give when the data source answers: flat
\* ones, a steady rise, a fall followed by a rise, and a flat one with a
\* one-day drop.
SeriesKinds == {"flat_100", "flat_1", "rise", "vee", "dip"}
MarketSeries(kind) ==
    [i \in 1..MaxBars |->
        CASE kind = "flat_100" -> 100
          [] kind = "flat_1" -> 1
          [] kind = "rise" -> 100 + i
          [] kind = "vee" -> IF i <= 18 THEN 136 - 2 * i ELSE 100 + 3 * (i - 18)
          [] kind = "dip" -> IF i = 25 THEN 80 ELSE 100]

RECURSIVE SumFrom(_, _, _)
\* closes[lo] + ... + closes[hi].
SumFrom(closes, lo, hi) ==
    IF lo > hi THEN 0
    ELSE IF lo = hi THEN closes[lo]
    ELSE SumFrom(closes, lo, (lo + hi) \div 2) + SumFrom(closes, (lo + hi) \div 2 + 1, hi)

RECURSIVE SumSquaresFrom(_, _, _)
SumSquaresFrom(closes, lo, hi) ==
    IF lo > hi THEN 0
    ELSE IF lo = hi THEN closes[lo] * closes[lo]
    ELSE SumSquaresFrom(closes, lo, (lo + hi) \div 2)
            + SumSquaresFrom(closes, (lo + hi) \div 2 + 1, hi)

\* moving_average_crossover: the signal of bar i (the first bar is 1).  The
\* rolling means exist from the bar that fills their window on, the signal
\* is set from index fast_period on, and fast_ma > slow_ma compares
\* sum_fast / fast_period with sum_slow / slow_period.
MaCrossoverSignal(closes, i, fast_period, slow_period) ==
    IF i > fast_period /\ i >= slow_period
         /\ SumFrom(closes, i - fast_period + 1, i) * slow_period
               > SumFrom(closes, i - slow_period + 1, i) * fast_period
      THEN 1 ELSE 0

RsiPeriod == 14
RECURSIVE GainsFrom(_, _, _)
\* The sum over bars lo..hi of delta.where(delta > 0, 0); the first bar has
\* no delta and counts 0.
GainsFrom(closes, lo, hi) ==
    IF lo > hi THEN 0
    ELSE IF lo = hi
      THEN (IF lo > 1 /\ closes[lo] > closes[lo - 1] THEN closes[lo] - closes[lo - 1] ELSE 0)
    ELSE GainsFrom(closes, lo, (lo + hi) \div 2) + GainsFrom(closes, (lo + hi) \div 2 + 1, hi)

RECURSIVE LossesFrom(_, _, _)
LossesFrom(closes, lo, hi) ==
    IF lo > hi THEN 0
    ELSE IF lo = hi
      THEN (IF lo > 1 /\ closes[lo] < closes[lo - 1] THEN closes[lo - 1] - closes[lo] ELSE 0)
    ELSE LossesFrom(closes, lo, (lo + hi) \div 2) + LossesFrom(closes, (lo + hi) \div 2 + 1, hi)

\* rsi_divergence: rsi = 100 - 100 / (1 + gain / loss) is
\* 100 * gain / (gain + loss), 100 when only the loss is 0 and NaN, which
\* no comparison matches, when both are 0 or the window is not full.
RsiSignal(closes, i) ==
    LET gain == GainsFrom(closes, i - RsiPeriod + 1, i)
        loss == LossesFrom(closes, i - RsiPeriod + 1, i)
    IN  IF i < RsiPeriod \/ gain + loss = 0 THEN 0
        ELSE IF 3 * gain > 7 * loss THEN -1
        ELSE IF 7 * gain < 3 * loss THEN 1
        ELSE 0

BollingerPeriod == 20
\* The band test with the lower band taken as reached when equalled.
BollingerSignal_AtBand(closes, i) ==
    LET n == BollingerPeriod
        sum == SumFrom(closes, i - n + 1, i)
        squares == SumSquaresFrom(closes, i - n + 1, i)
        below == sum - n * closes[i]
    IN  IF i < n THEN 0
        ELSE IF below < 0 /\ (n - 1) * below * below > 4 * n * (n * squares - sum * sum)
          THEN -1
        ELSE IF below >= 0 /\ (n - 1) * below * below >= 4 * n * (n * squares - sum * sum)
          THEN 1
        ELSE 0

\* bollinger_bands: Close < ma - 2 * std gives 1 and Close > ma + 2 * std
\* gives -1, std being the sample deviation of the window:
\* |ma - Close| > 2 * std is (n - 1) * (sum - n * Close)^2
\* > 4 * n * (n * squares - sum^2).
BollingerSignal(closes, i) ==
    LET n == BollingerPeriod
        sum == SumFrom(closes, i - n + 1, i)
        squares == SumSquaresFrom(closes, i - n + 1, i)
        below == sum - n * closes[i]
    IN  IF i < n THEN 0
        ELSE IF below < 0 /\ (n - 1) * below * below > 4 * n * (n * squares - sum * sum)
          THEN -1
        ELSE IF below > 0 /\ (n - 1) * below * below > 4 * n * (n * squares - sum * sum)
          THEN 1
        ELSE 0

\* The exponential averages: values in hundredths, weights in thousandths.
EwmValueScale == 100
EwmWeightScale == 1000

\* One bar of Series.ewm(span).mean() as pandas computes it with
\* adjust=True: the weight of what was seen shrinks by 1 - 2 / (span + 1),
\* the new bar comes in with weight 1, and a bar equal to the average
\* leaves the average as it is.
EwmNext(prev, value, span) ==
    LET old_wt == RoundDiv(prev.old_wt * (span - 1), span + 1)
    IN  [weighted |->
            IF prev.weighted = value THEN prev.weighted
            ELSE RoundDiv(old_wt * prev.weighted + EwmWeightScale * value,
                          old_wt + EwmWeightScale),
         old_wt |-> old_wt + EwmWeightScale]

RECURSIVE EwmRun(_, _, _, _, _)
\* The averages of bars lo..hi added to those of the bars before them, the
\* bars before the middle first.
EwmRun(states, values, span, lo, hi) ==
    IF lo > hi THEN states
    ELSE IF lo = hi THEN Append(states, EwmNext(states[Len(states)], values[lo], span))
    ELSE LET mid == (lo + hi) \div 2
             left == EwmRun(states, values, span, lo, mid)
         IN  IF Len(left) = mid THEN EwmRun(left, values, span, mid + 1, hi) ELSE left

Ewm(values, span) ==
    LET states == EwmRun(<<[weighted |-> values[1], old_wt |-> EwmWeightScale]>>,
                         values, span, 2, Len(values))
    IN  [i \in 1..Len(values) |-> states[i].weighted]

MacdFast == 12
MacdSlow == 26
MacdSignalSpan == 9

\* macd_signal: the signal series, 1 where macd > macd_signal.
MacdSignals(closes) ==
    LET scaled == [i \in 1..Len(closes) |-> closes[i] * EwmValueScale]
        exp1 == Ewm(scaled, MacdFast)
        exp2 == Ewm(scaled, MacdSlow)
        macd == [i \in 1..Len(closes) |-> exp1[i] - exp2[i]]
        macd_signal == Ewm(macd, MacdSignalSpan)
    IN  [i \in 1..Len(closes) |-> IF macd[i] > macd_signal[i] THEN 1 ELSE 0]

Strategies == {"moving_average_crossover", "rsi_divergence", "bollinger_bands", "macd_signal"}

\* data['signal'] after the strategy params names.
SignalSeries(params, closes) ==
    CASE params.strategy_type = "moving_average_crossover" ->
            [i \in 1..Len(closes) |->
                MaCrossoverSignal(closes, i, params.fast_ma_period, params.slow_ma_period)]
      [] params.strategy_type = "rsi_divergence" ->
            [i \in 1..Len(closes) |-> RsiSignal(closes, i)]
      [] params.strategy_type = "bollinger_bands" ->
            [i \in 1..Len(closes) |-> BollingerSignal(closes, i)]
      [] params.strategy_type = "macd_signal" -> MacdSignals(closes)

\* data['position'] = data['signal'].diff(); the first bar has none, which
\* is neither 1 nor -1.
PositionSeries(signal) ==
    [i \in 1..Len(signal) |-> IF i = 1 THEN 0 ELSE signal[i] - signal[i - 1]]

\* position * current_price for a position bought with stake at entry_price.
HeldValue(stake, entry_price, current_price) ==
    RoundDiv(stake * current_price, entry_price)

\* The pass with the equity left in hand at a buy.
PerformanceStep_KeepsEquity(params, before, position, current_price) ==
    LET signalled ==
            IF position = 1 /\ before.stake = 0
              THEN [before EXCEPT !.stake = before.equity,
                                  !.entry_price = current_price]
            ELSE IF position = -1 /\ before.stake > 0
              THEN [before EXCEPT
                      !.equity = HeldValue(before.stake, before.entry_price, current_price),
                      !.trades = IF before.entry_price > 0 THEN @ + 1 ELSE @,
                      !.winning = IF before.entry_price > 0 /\ current_price > before.entry_price
                                    THEN @ + 1 ELSE @,
                      !.stake = 0,
                      !.entry_price = 0]
            ELSE before
        price_change_pct == (current_price - signalled.entry_price) * 100
        guarded ==
            IF /\ signalled.stake > 0
               /\ signalled.entry_price > 0
               /\ \/ price_change_pct <= - params.stop_loss * signalled.entry_price
                  \/ price_change_pct >= params.take_profit * signalled.entry_price
              THEN [signalled EXCEPT
                      !.equity = HeldValue(signalled.stake, signalled.entry_price,
                                           current_price),
                      !.trades = @ + 1,
                      !.winning = IF current_price > signalled.entry_price THEN @ + 1 ELSE @,
                      !.stake = 0,
                      !.entry_price = 0]
            ELSE signalled
        current_equity ==
            IF guarded.stake = 0 THEN guarded.equity
            ELSE HeldValue(guarded.stake, guarded.entry_price, current_price)
    IN  [guarded EXCEPT !.equity_curve = Append(@, current_equity)]

\* The pass with the position closed only past the stop loss or the take
\* profit, not at them.
PerformanceStep_PastTheLimit(params, before, position, current_price) ==
    LET signalled ==
            IF position = 1 /\ before.stake = 0
              THEN [before EXCEPT !.stake = before.equity,
                                  !.entry_price = current_price,
                                  !.equity = 0]
            ELSE IF position = -1 /\ before.stake > 0
              THEN [before EXCEPT
                      !.equity = HeldValue(before.stake, before.entry_price, current_price),
                      !.trades = IF before.entry_price > 0 THEN @ + 1 ELSE @,
                      !.winning = IF before.entry_price > 0 /\ current_price > before.entry_price
                                    THEN @ + 1 ELSE @,
                      !.stake = 0,
                      !.entry_price = 0]
            ELSE before
        price_change_pct == (current_price - signalled.entry_price) * 100
        guarded ==
            IF /\ signalled.stake > 0
               /\ signalled.entry_price > 0
               /\ \/ price_change_pct < - params.stop_loss * signalled.entry_price
                  \/ price_change_pct > params.take_profit * signalled.entry_price
              THEN [signalled EXCEPT
                      !.equity = HeldValue(signalled.stake, signalled.entry_price,
                                           current_price),
                      !.trades = @ + 1,
                      !.winning = IF current_price > signalled.entry_price THEN @ + 1 ELSE @,
                      !.stake = 0,
                      !.entry_price = 0]
            ELSE signalled
        current_equity ==
            IF guarded.stake = 0 THEN guarded.equity
            ELSE HeldValue(guarded.stake, guarded.entry_price, current_price)
    IN  [guarded EXCEPT !.equity_curve = Append(@, current_equity)]

\* One pass of the loop of calculate_performance: before is the equity in
\* hand, the stake and the entry price of the position held (0 when there
\* is none), the trades and the winning ones, and the equity curve.
PerformanceStep(params, before, position, current_price) ==
    LET signalled ==
            IF position = 1 /\ before.stake = 0
              THEN [before EXCEPT !.stake = before.equity,
                                  !.entry_price = current_price,
                                  !.equity = 0]
            ELSE IF position = -1 /\ before.stake > 0
              THEN [before EXCEPT
                      !.equity = HeldValue(before.stake, before.entry_price, current_price),
                      !.trades = IF before.entry_price > 0 THEN @ + 1 ELSE @,
                      !.winning = IF before.entry_price > 0 /\ current_price > before.entry_price
                                    THEN @ + 1 ELSE @,
                      !.stake = 0,
                      !.entry_price = 0]
            ELSE before
        price_change_pct == (current_price - signalled.entry_price) * 100
        guarded ==
            IF /\ signalled.stake > 0
               /\ signalled.entry_price > 0
               /\ \/ price_change_pct <= - params.stop_loss * signalled.entry_price
                  \/ price_change_pct >= params.take_profit * signalled.entry_price
              THEN [signalled EXCEPT
                      !.equity = HeldValue(signalled.stake, signalled.entry_price,
                                           current_price),
                      !.trades = @ + 1,
                      !.winning = IF current_price > signalled.entry_price THEN @ + 1 ELSE @,
                      !.stake = 0,
                      !.entry_price = 0]
            ELSE signalled
        current_equity ==
            IF guarded.stake = 0 THEN guarded.equity
            ELSE HeldValue(guarded.stake, guarded.entry_price, current_price)
    IN  [guarded EXCEPT !.equity_curve = Append(@, current_equity)]

RECURSIVE PerformanceLoop(_, _, _, _, _, _)
\* The loop of calculate_performance over bars lo..hi, before being what the
\* bars before them left; the bars before the middle go first.
PerformanceLoop(params, closes, position, before, lo, hi) ==
    IF lo > hi THEN before
    ELSE IF lo = hi THEN PerformanceStep(params, before, position[lo], closes[lo])
    ELSE LET mid == (lo + hi) \div 2
             left == PerformanceLoop(params, closes, position, before, lo, mid)
         IN  IF Len(left.equity_curve) = mid
               THEN PerformanceLoop(params, closes, position, left, mid + 1, hi)
             ELSE left

\* equity = initial_capital, position = 0, entry_price = 0, trades = [],
\* equity_curve = [].
PerformanceStart(params) ==
    [equity |-> params.initial_capital, stake |-> 0, entry_price |-> 0,
     trades |-> 0, winning |-> 0, equity_curve |-> <<>>]

\* One pass of the loop of calculate_max_drawdown: the peak and the deepest
\* fall from it, in hundredths of a percent.
DrawdownStep(before, value) ==
    LET peak == IF value > before.peak THEN value ELSE before.peak
        dd == RoundDiv((peak - value) * 10000, peak)
    IN  [peak |-> peak, max_dd |-> IF dd > before.max_dd THEN dd ELSE before.max_dd]

RECURSIVE DrawdownLoop(_, _, _, _)
\* The loop over points lo..hi, the points before the middle first.
DrawdownLoop(equity_curve, before, lo, hi) ==
    IF lo > hi THEN before
    ELSE IF lo = hi THEN DrawdownStep(before, equity_curve[lo])
    ELSE LET mid == (lo + hi) \div 2
             left == DrawdownLoop(equity_curve, before, lo, mid)
         IN  IF left.max_dd >= 0 THEN DrawdownLoop(equity_curve, left, mid + 1, hi) ELSE left

calculate_max_drawdown(equity_curve) ==
    DrawdownLoop(equity_curve, [peak |-> equity_curve[1], max_dd |-> 0],
                 1, Len(equity_curve)).max_dd

\* calculate_performance, for the fields the equity and the trades decide:
\* win_rate is the pair of the winning trades and the trades.
calculate_performance(params, closes, position) ==
    LET final == PerformanceLoop(params, closes, position, PerformanceStart(params),
                                 1, Len(closes))
        equity_curve == final.equity_curve
    IN  [kind |-> "performance",
         equity_curve |-> equity_curve,
         net_profit |-> equity_curve[Len(equity_curve)] - params.initial_capital,
         win_rate |-> IF final.trades > 0 THEN <<final.winning, final.trades>> ELSE <<0, 1>>,
         max_drawdown |-> IF final.trades > 0 THEN calculate_max_drawdown(equity_curve) ELSE 0,
         total_trades |-> final.trades]

\* generate_synthetic_data with the seed left out.
generate_synthetic_data_Unseeded(state) ==
    [closes |-> SyntheticPrices(state, MaxBars), rng |-> RngAfter(state, 4 * MaxBars)]

\* generate_synthetic_data: the generator is seeded, the closes are drawn,
\* and the highs, the lows and the volumes take a draw a bar each.
generate_synthetic_data(state) ==
    [closes |-> SyntheticPrices(SeedValue, MaxBars), rng |-> RngAfter(SeedValue, 4 * MaxBars)]

\* fetch_data: what the data source answered, or the synthetic data when it
\* did not.
fetch_data(source, state) ==
    IF source = "unavailable" THEN generate_synthetic_data(state)
    ELSE [closes |-> MarketSeries(source), rng |-> state]

\* equity_values.append(equity_values[-1] * (1 + ret)), ret being the next
\* draw: a daily return of 0.08 percent plus 1.5 percent a deviation.
NextDemoEquity(walk) ==
    LET ret == 8 + 75 * RngNormal(walk.rng)
    IN  [values |-> Append(walk.values,
                           RoundDiv(walk.values[Len(walk.values)] * (10000 + ret), 10000)),
         rng |-> RngNext(walk.rng)]

RECURSIVE DemoWalk(_, _, _)
DemoWalk(walk, lo, hi) ==
    IF lo > hi THEN walk
    ELSE IF lo = hi THEN NextDemoEquity(walk)
    ELSE LET mid == (lo + hi) \div 2
             left == DemoWalk(walk, lo, mid)
         IN  IF Len(left.values) = mid THEN DemoWalk(left, mid + 1, hi) ELSE left

\* equity_values of generate_demo_results.
DemoEquity(params, bars) ==
    DemoWalk([values |-> <<params.initial_capital>>, rng |-> RngNext(SeedValue)], 2, bars).values

DemoWinRate == <<62, 100>>
DemoMaxDrawdown == 1530
DemoTotalTrades == 24

generate_demo_results(params) ==
    LET equity_values == DemoEquity(params, MaxBars)
    IN  [result |-> [kind |-> "demo",
                     equity_curve |-> equity_values,
                     net_profit |-> equity_values[MaxBars] - params.initial_capital,
                     win_rate |-> DemoWinRate,
                     max_drawdown |-> DemoMaxDrawdown,
                     total_trades |-> DemoTotalTrades],
         rng |-> RngAfter(SeedValue, MaxBars)]

\* backtest_strategy: the result and the generator after it.
backtest_strategy(params, source, state) ==
    LET data == fetch_data(source, state)
    IN  IF params.strategy_type \in Strategies
          THEN [result |-> calculate_performance(params, data.closes,
                               PositionSeries(SignalSeries(params, data.closes))),
                rng |-> data.rng]
        ELSE generate_demo_results(params)

InitialCapitals == {10000}
RiskSettings == {<<5, 10>>, <<50, 100>>, <<0, 0>>}
MaPeriods == {<<3, 8>>}
BacktestParams ==
    {[symbol |-> "XYZUSD", strategy_type |-> strategy, initial_capital |-> capital,
      stop_loss |-> risk[1], take_profit |-> risk[2],
      fast_ma_period |-> periods[1], slow_ma_period |-> periods[2]] :
        strategy \in Strategies \cup {"unknown"}, capital \in InitialCapitals,
        risk \in RiskSettings, periods \in MaPeriods}
DataSources == SeriesKinds \cup {"unavailable"}

NoParams == [symbol |-> "", strategy_type |-> "", initial_capital |-> 0,
             stop_loss |-> 0, take_profit |-> 0, fast_ma_period |-> 0, slow_ma_period |-> 0]
NoBacktest == [kind |-> "none", equity_curve |-> <<>>, net_profit |-> 0,
               win_rate |-> <<0, 1>>, max_drawdown |-> 0, total_trades |-> 0]

BtInit ==
    /\ b_rng = -1
    /\ b_source = "none"
    /\ b_params = NoParams
    /\ b_result = NoBacktest

\* A process starts: numpy seeds its generator from the system.
StartProcess ==
    /\ b_rng' \in RngSeeds
    /\ UNCHANGED <<b_source, b_params, b_result>>

\* main: one call of backtest_strategy with the params read from stdin.
BacktestStrategy(params, source) ==
    /\ b_rng # -1
    /\ LET outcome == backtest_strategy(params, source, b_rng)
       IN  /\ b_rng' = outcome.rng
           /\ b_result' = outcome.result
    /\ b_source' = source
    /\ b_params' = params


(***************************************************************************)
(* The periodic loops  (server/python_service.py, server/social_monitor.py) *)
(*                                                                         *)
(* Each loop is a task that tests its condition, awaits the call of its    *)
(* body inside a try, sleeps, and tests again; an exception out of the     *)
(* body is caught by the except of the loop, which sleeps as well.  What   *)
(* the bodies do to the store is in the groups above; here a body is its   *)
(* outcome.                                                                *)
(***************************************************************************)
VARIABLES
    l_running,  \* self.is_running of the TradingService
    l_task      \* where each loop is, and how its last body ended

loopVars == <<l_running, l_task>>

\* The loops of the TradingService, which run while self.is_running, and
\* simulate_tweet_stream of the SocialSentimentMonitor, which runs for ever.
ServiceLoops == {"_portfolio_update_loop", "_position_monitoring_loop",
                 "_social_monitoring_loop"}
PeriodicLoops == ServiceLoops \cup {"simulate_tweet_stream"}

\* How the body of an iteration can end: it returns; a failure on a
\* position, a symbol or a provider call is caught and logged inside the
\* function called, which returns; an Exception leaves the function called.
BodyOutcomes == {"ok", "logged", "raises"}

\* Where the loop goes from the body with the exception leaving the loop.
AfterBody_Unhandled(outcome) == IF outcome = "raises" THEN "done" ELSE "sleep"

\* Where the loop goes from the body: to the sleep of the try, or into the
\* except of the loop, which logs and sleeps.
AfterBody(outcome) == IF outcome = "raises" THEN "recover" ELSE "sleep"

NewTask == [pc |-> "new", last |-> "ok"]

LoopsInit ==
    /\ l_running = FALSE
    /\ l_task = [t \in PeriodicLoops |-> NewTask]

\* start: is_running is set and the three loops are gathered.
StartLoops ==
    /\ ~l_running
    /\ \A t \in ServiceLoops : l_task[t].pc = "new"
    /\ l_running' = TRUE
    /\ l_task' = [t \in PeriodicLoops |->
                    IF t \in ServiceLoops THEN [l_task[t] EXCEPT !.pc = "test"]
                    ELSE l_task[t]]

\* start_monitoring: simulate_tweet_stream is gathered.
StartMonitoring ==
    /\ l_task["simulate_tweet_stream"].pc = "new"
    /\ l_task' = [l_task EXCEPT !["simulate_tweet_stream"].pc = "test"]
    /\ UNCHANGED l_running

\* stop: is_running is cleared.
StopLoops ==
    /\ l_running
    /\ l_running' = FALSE
    /\ UNCHANGED l_task

\* while self.is_running / while True: the next iteration begins, or the
\* loop ends.
LoopTest(t) ==
    /\ l_task[t].pc = "test"
    /\ l_task' = [l_task EXCEPT
                    ![t].pc = IF t \in ServiceLoops /\ ~l_running THEN "done" ELSE "body"]
    /\ UNCHANGED l_running

\* The await of the body returns or raises.
LoopBody(t, outcome) ==
    /\ l_task[t].pc = "body"
    /\ l_task' = [l_task EXCEPT ![t] = [pc |-> AfterBody(outcome), last |-> outcome]]
    /\ UNCHANGED l_running

\* asyncio.sleep, in the try or in the except, is over.
LoopSleep(t) ==
    /\ l_task[t].pc \in {"sleep", "recover"}
    /\ l_task' = [l_task EXCEPT ![t].pc = "test"]
    /\ UNCHANGED l_running


vars == <<execVars, valVars, monVars, simpleVars, memeVars, svcVars, gateVars, btVars, loopVars>>

(***************************************************************************)
(* Properties of RiskManagedTradeExecutor                                  *)
(***************************************************************************)
LaterStagesEmpty ==
    /\ ~e_result.preparation_result.populated
    /\ ~e_result.signing_result.populated
    /\ ~e_result.broadcast_result.populated
    /\ e_result.broadcast_transaction_hash = "None"

\* C9: when the Simulate stage returns failure, execute_trade returns with
\* status failed_simulation, and no Prepare, Sign or Broadcast result is in
\* the result (broadcast_transaction_hash stays null).
C9_SimulateFailureAborts ==
    (e_result.simulation_result.populated /\ ~e_result.simulation_result.success)
        => /\ e_pc = "returned"
           /\ e_result.status = "failed_simulation"
           /\ LaterStagesEmpty

\* A call whose simulation failed has returned.
C9_Witness ==
    /\ e_pc = "returned"
    /\ e_result.simulation_result.populated
    /\ ~e_result.simulation_result.success
    /\ e_result.fee_estimation.success

\* C10: when no simulation endpoint confirms the transaction (each one
\* raises or answers with a status other than 200), the pipeline aborts with
\* status failed_simulation and Prepare, Sign and Broadcast are not reached.
C10_UnconfirmedSimulationAborts ==
    (e_result.simulation_result.populated
        /\ e_result.simulation_result.kind # "endpoint")
        => /\ e_result.status = "failed_simulation"
           /\ LaterStagesEmpty


\* C11: the fee stage never fails, whatever the provider does: execute_trade
\* never has status failed_fee_estimation.
C11_FeeStageNeverFails ==
    /\ e_result.status # "failed_fee_estimation"
    /\ e_result.fee_estimation.populated => e_result.fee_estimation.success

\* The stage keys of the result, in the order of the pipeline.
StageKeys ==
    <<"fee_estimation", "simulation_result", "preparation_result",
      "signing_result", "broadcast_result">>
FailedStatus ==
    <<"failed_fee_estimation", "failed_simulation", "failed_preparation",
      "failed_signing", "failed_broadcast">>

\* C12: execute_trade returns a result whose status is one of the seven
\* final values; it is success only when all five stages are recorded as
\* successful; for failed_X the stage X is recorded as failed, every
\* earlier stage as successful and no later stage is recorded; and at any
\* time the recorded stages are a prefix of fee, simulate, prepare, sign,
\* broadcast.
C12_StatusMatchesStages ==
    /\ \A i \in 2..5 : e_result[StageKeys[i]].populated
            => /\ e_result[StageKeys[i - 1]].populated
               /\ e_result[StageKeys[i - 1]].success
    /\ e_pc = "returned" =>
         /\ e_result.status \in {"success", "error"} \cup {FailedStatus[i] : i \in 1..5}
         /\ e_result.status = "success" =>
               \A i \in 1..5 : /\ e_result[StageKeys[i]].populated
                               /\ e_result[StageKeys[i]].success
         /\ \A i \in 1..5 : e_result.status = FailedStatus[i] =>
               /\ e_result[StageKeys[i]].populated
               /\ ~e_result[StageKeys[i]].success
               /\ \A j \in 1..5 : j < i => /\ e_result[StageKeys[j]].populated
                                            /\ e_result[StageKeys[j]].success
               /\ \A j \in 1..5 : j > i => ~e_result[StageKeys[j]].populated

\* A call has returned after its signing stage failed.
C12_Witness ==
    /\ e_pc = "returned"
    /\ e_result.status = "failed_signing"
    /\ e_result.preparation_result.success

\* C13: within one call a stage result is recorded only when that stage has
\* no result yet and no recorded stage has failed: no stage runs after a
\* failure and no stage runs twice.
C13_NoStageAfterFailure ==
    [][\A i \in 1..5 :
          (e_result'[StageKeys[i]] # e_result[StageKeys[i]]
              /\ e_result'[StageKeys[i]].populated)
          => /\ ~e_result[StageKeys[i]].populated
             /\ \A j \in 1..5 : e_result[StageKeys[j]].populated
                                    => e_result[StageKeys[j]].success]_vars

\* A call has returned after its preparation stage failed.
C13_Witness ==
    /\ e_pc = "returned"
    /\ e_result.status = "failed_preparation"
    /\ ~e_result.signing_result.populated
    /\ ~e_result.broadcast_result.populated

\* C14: a result with status success carries the transaction hash the
\* signing stage produced.
C14_SuccessCarriesHash ==
    e_result.status = "success"
        => /\ e_result.broadcast_transaction_hash # "None"
           /\ e_result.broadcast_transaction_hash = TxHash

(***************************************************************************)
(* Properties of TradingService                                            *)
(***************************************************************************)
OpenIndices == {n \in DOMAIN r_positions : r_positions[n].status = "open"}

\* C1: the portfolio never holds two open positions for the same symbol,
\* whatever the interleaving of signal checks, trade executions and closes.
C1_OneOpenPositionPerSymbol ==
    \A a \in OpenIndices, b \in OpenIndices :
        a # b => r_positions[a].symbol # r_positions[b].symbol

\* C3: each position is closed at most once, so that its P&L is booked at
\* most once: a position stems from one qualifying draw, and there are never
\* more closing trades than such draws.
C3_ClosedAtMostOnce ==
    SellCount(r_trades) <= v_signals

\* C4: a position record with status closed is never changed again: no step
\* gives it another status, price, P&L or exit reason (an lpush moves it
\* down the list unchanged).
C4_ClosedIsImmutable ==
    [][LET shift == Len(r_positions') - Len(r_positions)
       IN  \A n \in DOMAIN r_positions :
              r_positions[n].status = "closed"
                  => r_positions'[n + shift] = r_positions[n]]_vars

\* C5: one evaluation of an open position checks stop-loss, then
\* take-profit, then the remaining trigger, and the first that matches is
\* the one exit reason recorded: a closed record has reason stop_loss
\* exactly when its price is at or under its stop-loss price, take_profit
\* exactly when it is above that and at or over its take-profit price, and
\* manual exactly when it is strictly between the two.  For an entry of 100
\* (stop-loss 85, take-profit 130) a price of 84 gives stop_loss and a
\* price of 131 gives take_profit.
C5_FirstMatchingTriggerCloses ==
    /\ \A n \in DOMAIN r_positions :
          LET p == r_positions[n]
          IN  p.status = "closed" =>
                /\ p.exitReason \in {"stop_loss", "take_profit", "manual"}
                /\ p.exitReason = "stop_loss" <=> p.currentPrice <= p.stopLoss
                /\ p.exitReason = "take_profit"
                      <=> (p.currentPrice > p.stopLoss /\ p.currentPrice >= p.takeProfit)
                /\ p.exitReason = "manual"
                      <=> (p.currentPrice > p.stopLoss /\ p.currentPrice < p.takeProfit)
    /\ \A random_exit \in BOOLEAN :
          /\ ExitReason([NewPosition(1, "DOGE", 1000) EXCEPT !.currentPrice = 84],
                        random_exit) = "stop_loss"
          /\ ExitReason([NewPosition(1, "DOGE", 1000) EXCEPT !.currentPrice = 131],
                        random_exit) = "take_profit"

\* The monitor has closed a position whose price fell to its stop-loss price.
C5_Witness ==
    \E n \in DOMAIN r_positions :
        /\ r_positions[n].status = "closed"
        /\ r_positions[n].exitReason = "stop_loss"
        /\ r_positions[n].currentPrice <= r_positions[n].stopLoss

\* C21: every position is opened with a stop-loss price of 0.85 times and a
\* take-profit price of 1.30 times its entry price, each to the six
\* decimals the position stores (less than two millionths from the product
\* with the stored entry price; an entry of 100 gives 85 and 130), so that
\* stop-loss price < entry price < take-profit price for every open
\* position.
C21_RiskPricesAroundEntry ==
    /\ \A n \in DOMAIN r_positions :
          LET p == r_positions[n]
          IN  p.status = "open" =>
                /\ p.stopLoss * 100 - p.entryPrice * 85 \in -199..199
                /\ p.takeProfit * 100 - p.entryPrice * 130 \in -199..199
                /\ p.stopLoss < p.entryPrice
                /\ p.entryPrice < p.takeProfit
    /\ NewPosition(1, "DOGE", 1000).entryPrice = 100
    /\ NewPosition(1, "DOGE", 1000).stopLoss = 85
    /\ NewPosition(1, "DOGE", 1000).takeProfit = 130

\* A position is open whose drawn entry price was rounded to be stored.
C21_Witness ==
    \E n \in DOMAIN r_positions :
        /\ r_positions[n].status = "open"
        /\ r_positions[n].entryPrice = 101
        /\ r_positions[n].stopLoss = 86
        /\ r_positions[n].takeProfit = 132

\* C22: closing a position books (exit price - entry price) x size, the
\* exit price being the price the position has when it is closed: the
\* closing trade carries that price and that amount, realizedPnL grows by
\* the amount and availableBalance by the stake plus the amount.
C22_CloseBooksRealizedPnl ==
    [][/\ (mo.pc = "scan" /\ mo'.pc = "trade") =>
             /\ r_positions'[mo'.i].currentPrice = r_positions[mo'.i].currentPrice
             /\ r_positions'[mo'.i].pnl =
                    PositionPnl(r_positions[mo'.i].currentPrice,
                                r_positions[mo'.i].entryPrice)
       /\ (mo.pc = "trade" /\ mo'.pc = "portfolio_read") =>
             /\ Len(r_trades') = Len(r_trades) + 1
             /\ r_trades'[1].type = "SELL"
             /\ r_trades'[1].price = r_positions[mo.i].currentPrice
             /\ r_trades'[1].pnl =
                    PositionPnl(r_positions[mo.i].currentPrice,
                                r_positions[mo.i].entryPrice)
       /\ (mo.pc = "portfolio_write" /\ mo'.pc = "scan") =>
             /\ r_portfolio'.realizedPnL =
                    r_portfolio.realizedPnL + r_trades[1].pnl
             /\ r_portfolio'.availableBalance =
                    r_portfolio.availableBalance + PositionValue + r_trades[1].pnl]_vars

\* C23: an open position that neither price trigger matches is closed by
\* the third trigger only when the social score of its token has dropped
\* below 40% of its value at entry, and then with exit reason
\* sentiment_decay: a position closed while its price is between its
\* stop-loss and take-profit prices carries that reason and no other.
C23_ThirdTriggerIsSentimentDecay ==
    \A n \in DOMAIN r_positions :
        LET p == r_positions[n]
        IN  (/\ p.status = "closed"
             /\ p.currentPrice > p.stopLoss
             /\ p.currentPrice < p.takeProfit)
                => p.exitReason = "sentiment_decay"

\* No task is between two Redis commands of an operation.
NoOperationInProgress ==
    /\ \A k \in SocialTasks : soc[k].pc = "idle"
    /\ rf.pc = "idle"
    /\ mo.pc = "idle"

\* C31: the portfolio accounting is conserved under every interleaving of
\* trade executions and closes: whenever no operation is in progress,
\* marginUsed is 100 dollars a position that is open, and availableBalance
\* + marginUsed - realizedPnL is the 10000 dollars of the start (no update
\* of the portfolio is lost).
C31_PortfolioConserved ==
    (is_running /\ NoOperationInProgress)
        => /\ r_portfolio.marginUsed = PositionValue * Cardinality(OpenIndices)
           /\ r_portfolio.availableBalance + r_portfolio.marginUsed
                 - r_portfolio.realizedPnL = StartBalance

\* C32: a write-back by list index lands on the position that was read:
\* when a position is pushed to the head of positions:1 while
\* _update_portfolio_metrics or _monitor_positions goes through an earlier
\* snapshot, no step replaces a stored record by the data of another
\* position; every record keeps its id and its symbol (an lpush moves it
\* down the list), so the ids in the list are preserved.
C32_WriteBackLandsOnPositionRead ==
    [][LET shift == Len(r_positions') - Len(r_positions)
       IN  /\ shift >= 0
           /\ \A n \in DOMAIN r_positions :
                 /\ r_positions'[n + shift].id = r_positions[n].id
                 /\ r_positions'[n + shift].symbol = r_positions[n].symbol]_vars

\* C15: no periodic loop of the service has two executions active at the
\* same time: at most one task is inside an iteration of the
\* social-monitoring loop.
C15_OneExecutionPerLoop ==
    Cardinality({k \in SocialTasks : soc[k].pc # "idle"}) <= 1

(***************************************************************************)
(* Properties of the admission of a signal                                 *)
(***************************************************************************)
RejectionReasons ==
    {"INSUFFICIENT_SENTIMENT", "INSUFFICIENT_SOURCES", "MARKET_CAP_TOO_LARGE",
     "ON_CHAIN_UNVALIDATED", "MAX_POSITIONS_REACHED", "DUPLICATE_POSITION"}

\* C24: an evaluation that does not admit gives a rejection that carries
\* one of the six reasons; a score of 0.85 with 3 sources, a market cap of
\* 4M, tier STRONG, 2 of 5 positions open and none on the symbol is
\* rejected with INSUFFICIENT_SOURCES.
C24_RejectionCarriesReason ==
    /\ (g_eval.evaluated /\ ~g_eval.admitted) => g_eval.returned \in RejectionReasons
    /\ (/\ g_eval.evaluated
        /\ g_eval.sentiment = 85
        /\ g_eval.mentions = 3
        /\ g_eval.market_cap = 4000000
        /\ g_eval.tier = "STRONG_VALIDATION"
        /\ g_eval.open_count = 2
        /\ ~g_eval.open_on_symbol)
           => (~g_eval.admitted /\ g_eval.returned = "INSUFFICIENT_SOURCES")

\* C25: every signal emitted has confidence min(1.0, score x count / 10),
\* which lies in [0.4, 1.0]; a score of 0.85 with 7 sources gives 0.595.
C25_ConfidenceOfSignal ==
    (g_eval.evaluated /\ g_eval.service = "monitor" /\ g_eval.admitted) =>
        LET conf_num == g_eval.signal.conf_num
            conf_den == g_eval.signal.conf_den
            product == g_eval.sentiment * g_eval.mentions
        IN  /\ conf_den > 0
            /\ IF product >= 1000
                  THEN conf_num = conf_den
                  ELSE conf_num * 1000 = product * conf_den
            /\ conf_num * 10 >= conf_den * 4
            /\ conf_num <= conf_den
            /\ (g_eval.sentiment = 85 /\ g_eval.mentions = 7)
                   => conf_num * 1000 = conf_den * 595

\* A signal of 12 sources has been emitted with the confidence capped.
C25_Witness ==
    /\ g_eval.evaluated
    /\ g_eval.service = "monitor"
    /\ g_eval.admitted
    /\ g_eval.mentions = 12
    /\ g_eval.signal.conf_num = g_eval.signal.conf_den

\* The inputs of the admission decision: the token, its score, source
\* count, market cap and tier, the number of open positions and whether one
\* is open on the token.
DecisionInputs(eval) ==
    <<eval.service, eval.token, eval.sentiment, eval.mentions, eval.market_cap,
      eval.tier, eval.open_count, eval.open_on_symbol>>

\* C26: the admission decision is a function of its inputs: an evaluation
\* given the inputs of the evaluation before it, with the same open
\* positions, admits exactly when that one did, whatever happened earlier.
C26_DecisionIsFunctionOfInputs ==
    [][(/\ g_eval.evaluated
        /\ g_eval'.evaluated
        /\ DecisionInputs(g_eval') = DecisionInputs(g_eval))
           => g_eval'.admitted = g_eval.admitted]_vars

\* C30: closed positions do not block admission: with fewer than 5
\* positions open and none open on the symbol, a signal that meets the
\* sentiment, source-count and market-cap thresholds opens a position,
\* whatever closed positions the list holds.
C30_ClosedPositionsDoNotBlock ==
    [][(/\ g_eval' # g_eval
        /\ g_eval'.service = "trading"
        /\ g_eval'.sentiment >= 80
        /\ g_eval'.mentions >= 5
        /\ g_eval'.market_cap <= 10000000
        /\ g_eval'.open_count < 5
        /\ ~g_eval'.open_on_symbol)
           => /\ g_eval'.admitted
              /\ g_positions' = <<[symbol |-> g_eval'.token, status |-> "open"]>>
                                    \o g_positions]_vars

(***************************************************************************)
(* Properties of MemeTrader                                                *)
(***************************************************************************)
\* C2: the number of open positions is at most max_positions in every
\* reachable state, also when several qualifying ticks arrive before an
\* earlier buy is recorded as an open position.
C2_OpenPositionsWithinMax ==
    Cardinality(t_active) <= max_positions

\* The protective orders of a symbol that have filled, by kind.
RiskFilled(sym, which) == t_orders[sym] - t_risk[sym][which]

\* C29: of the two protective sell orders of an entry at most one ever
\* executes: once one of them has filled and the position it protected is
\* closed, the other one does not fill.
C29_OneProtectiveOrderPerEntry ==
    [][\A sym \in MemeSymbols :
          (/\ t_buys[sym] = 0
           /\ t_qty[sym] = 0
           /\ RiskFilled(sym, "stop") + RiskFilled(sym, "limit") = t_orders[sym]
           /\ t_orders[sym] > 0)
              => /\ t_risk'[sym].stop >= t_risk[sym].stop
                 /\ t_risk'[sym].limit >= t_risk[sym].limit]_vars

(***************************************************************************)
(* Properties of the periodic loops                                        *)
(***************************************************************************)

\* C39: a failure in an iteration never ends a periodic loop: a loop ends
\* only at its test with the service stopped, the step of a failure moves
\* its loop to a sleep and leaves the other loops where they are, and after
\* an exception caught by the loop the next iteration begins, as long as the
\* service is running.
C39_FailureNeverEndsALoop ==
    /\ [][\A t \in PeriodicLoops :
            /\ (l_task'[t].pc = "done" /\ l_task[t].pc # "done")
                  => t \in ServiceLoops /\ ~l_running /\ l_task[t].pc = "test"
            /\ (l_task[t].pc = "body" /\ l_task'[t].pc # "body"
                   /\ l_task'[t].last # "ok")
                  => /\ l_task'[t].pc \in {"sleep", "recover"}
                     /\ \A u \in PeriodicLoops \ {t} : l_task'[u] = l_task[u]]_vars
    /\ \A t \in PeriodicLoops :
          (l_task[t].pc \in {"sleep", "recover"} /\ l_task[t].last # "ok")
              ~> \/ l_task[t].pc = "body"
                 \/ t \in ServiceLoops /\ ~l_running

\* Every loop is in the iteration after one that raised, the service
\* running.
C39_Witness ==
    /\ l_running
    /\ \A t \in PeriodicLoops : l_task[t].pc = "body" /\ l_task[t].last = "raises"

(***************************************************************************)
(* Properties of StrategyBacktester                                        *)
(***************************************************************************)

\* The series every close of which is the same.
FlatSeries ==
    {kind \in SeriesKinds :
        \A i, j \in 1..MaxBars : MarketSeries(kind)[i] = MarketSeries(kind)[j]}

RECURSIVE PerformanceTrace(_, _, _, _, _, _)
\* What the loop of calculate_performance held after each of the bars
\* lo..hi, added to the trace of the bars before them; the bars before the
\* middle go first.
PerformanceTrace(params, closes, position, trace, lo, hi) ==
    IF lo > hi THEN trace
    ELSE IF lo = hi
      THEN Append(trace, PerformanceStep(params, trace[Len(trace)], position[lo], closes[lo]))
    ELSE LET mid == (lo + hi) \div 2
             left == PerformanceTrace(params, closes, position, trace, lo, mid)
         IN  IF Len(left) = mid + 1
               THEN PerformanceTrace(params, closes, position, left, mid + 1, hi)
             ELSE left

\* The run that gave the result: its closes, its signal, its position
\* column, and what the loop held before the first bar (bars[1]) and after
\* bar i (bars[i + 1]).
RunOf(params, source) ==
    LET closes == fetch_data(source, SeedValue).closes
        signal == SignalSeries(params, closes)
        position == PositionSeries(signal)
    IN  [closes |-> closes, signal |-> signal, position |-> position,
         bars |-> PerformanceTrace(params, closes, position,
                                   <<PerformanceStart(params)>>, 1, Len(closes))]

\* Bar i opened a position: none was held before it, and one is held after
\* it or was closed within it.
Opened(bars, i) ==
    /\ bars[i].stake = 0
    /\ bars[i + 1].stake > 0 \/ bars[i + 1].trades > bars[i].trades

\* C36: the loop holds at most one position: a buy is taken only when none
\* is held, a close only when one is (one trade a bar at most), after every
\* bar exactly one of the equity in hand and the position is non-zero, and
\* the entries and the exits alternate: the entries up to a bar are the
\* trades closed plus the position held.
C36_OnePositionEntriesAndExitsAlternate ==
    b_result.kind = "performance" =>
        \A run \in {RunOf(b_params, b_source)} :
            LET bars == run.bars
            IN  /\ bars[MaxBars + 1].equity_curve = b_result.equity_curve
                /\ bars[MaxBars + 1].trades = b_result.total_trades
                /\ \A i \in 1..MaxBars :
                      /\ (bars[i + 1].stake = 0) # (bars[i + 1].equity = 0)
                      /\ bars[i].stake > 0 =>
                            \/ bars[i + 1].stake = 0
                            \/ /\ bars[i + 1].stake = bars[i].stake
                               /\ bars[i + 1].entry_price = bars[i].entry_price
                      /\ bars[i + 1].trades - bars[i].trades \in {0, 1}
                      /\ bars[i + 1].trades > bars[i].trades =>
                            bars[i].stake > 0 \/ run.position[i] = 1
                      /\ Cardinality({j \in 1..i : Opened(bars, j)})
                            = bars[i + 1].trades
                                + (IF bars[i + 1].stake > 0 THEN 1 ELSE 0)

\* A run entered twice and left twice, the second entry after the first
\* exit.
C36_Witness ==
    /\ b_result.kind = "performance"
    /\ b_result.total_trades >= 2
    /\ \E run \in {RunOf(b_params, b_source)} :
          \E i, j \in 1..MaxBars :
              /\ i < j
              /\ run.bars[i].stake > 0 /\ run.bars[i + 1].stake = 0
              /\ run.bars[j].stake = 0 /\ run.bars[j + 1].stake > 0

\* The close of bar i is at or beyond the stop loss or the take profit of
\* the position held before the bar.
AtLimit(params, run, i) ==
    /\ run.bars[i].stake > 0
    /\ \/ run.closes[i] * 100 <= run.bars[i].entry_price * (100 - params.stop_loss)
       \/ run.closes[i] * 100 >= run.bars[i].entry_price * (100 + params.take_profit)

\* C37: while a position is held, a bar whose close is at or below entry x
\* (1 - stop_loss) or at or above entry x (1 + take_profit) closes the
\* position on that bar with exactly one trade, whatever the signal; and a
\* bar that closes on a sell signal records one trade, not two.
C37_LimitClosesWithOneTrade ==
    b_result.kind = "performance" =>
        \A run \in {RunOf(b_params, b_source)} :
            /\ run.bars[MaxBars + 1].trades = b_result.total_trades
            /\ \A i \in 1..MaxBars :
                  (AtLimit(b_params, run, i)
                      \/ (run.bars[i].stake > 0 /\ run.position[i] = -1))
                    => /\ run.bars[i + 1].stake = 0
                       /\ run.bars[i + 1].trades = run.bars[i].trades + 1

\* A position held is closed at its limit on a bar whose signal is still 1,
\* with a limit that is not 0.
C37_Witness ==
    /\ b_result.kind = "performance"
    /\ b_params.stop_loss > 0
    /\ \E run \in {RunOf(b_params, b_source)} :
          \E i \in 1..MaxBars :
              /\ AtLimit(b_params, run, i)
              /\ run.signal[i] = 1
              /\ run.position[i] = 0
              /\ run.bars[i + 1].trades = run.bars[i].trades + 1

\* A sell signal comes on a bar that is at the limit as well.
C37_WitnessSell ==
    /\ b_result.kind = "performance"
    /\ \E run \in {RunOf(b_params, b_source)} :
          \E i \in 1..MaxBars :
              /\ AtLimit(b_params, run, i)
              /\ run.position[i] = -1
              /\ run.bars[i + 1].trades = run.bars[i].trades + 1

\* The strategies whose signal takes the values -1, 0 and 1.
ThreeValued == {"rsi_divergence", "bollinger_bands"}

\* C38: a position is opened only on a bar where the signal becomes 1, and
\* closed on signal only on a bar where the signal leaves 1 or becomes -1;
\* a bar whose signal is 0 or -1 never opens one, for the strategies whose
\* signal takes all of -1, 0 and 1.
C38_OpensOnlyWhereSignalBecomesBuy ==
    (b_result.kind = "performance" /\ b_params.strategy_type \in ThreeValued) =>
        \A run \in {RunOf(b_params, b_source)} :
            /\ run.bars[MaxBars + 1].trades = b_result.total_trades
            /\ \A i \in 2..MaxBars :
                  /\ Opened(run.bars, i) =>
                        run.signal[i] = 1 /\ run.signal[i - 1] # 1
                  /\ (run.bars[i].stake > 0 /\ run.position[i] = -1) =>
                        run.signal[i - 1] = 1 \/ run.signal[i] = -1

\* C27: on a flat price series (every close equal) calculate_performance
\* reports, under each of the four strategies, net_profit = 0,
\* max_drawdown = 0 and total_trades = 0, and every point of the equity
\* curve is the initial capital.
C27_FlatSeriesTradesNothing ==
    (b_source \in FlatSeries /\ b_params.strategy_type \in Strategies)
        => /\ b_result.kind = "performance"
           /\ b_result.net_profit = 0
           /\ b_result.max_drawdown = 0
           /\ b_result.total_trades = 0
           /\ Len(b_result.equity_curve) = MaxBars
           /\ \A i \in 1..MaxBars : b_result.equity_curve[i] = b_params.initial_capital

\* Every strategy has been run over every flat series, with every setting
\* of the stop loss and the take profit; this is one of the runs.
C27_Witness ==
    /\ b_source = "flat_1"
    /\ b_params.strategy_type = "bollinger_bands"
    /\ b_params.take_profit = 0
    /\ b_result.kind = "performance"
    /\ b_result.total_trades = 0

\* The result of the chosen strategy over the series seeded with 42.
SeededReplay(params) ==
    LET closes == SyntheticPrices(SeedValue, MaxBars)
    IN  calculate_performance(params, closes, PositionSeries(SignalSeries(params, closes)))

\* A result has a point for every bar, counts of trades that are not
\* negative, and the net profit of its last point.
WellFormed(params, result) ==
    /\ result.kind \in {"performance", "demo"}
    /\ Len(result.equity_curve) = MaxBars
    /\ result.total_trades >= 0
    /\ result.max_drawdown >= 0
    /\ result.win_rate[1] \in 0..result.win_rate[2]
    /\ result.net_profit = result.equity_curve[MaxBars] - params.initial_capital

\* C28: when the data source is unavailable backtest_strategy returns a
\* well-formed result, which for each of the four strategies is the replay
\* of the series seeded with 42 through that strategy, whatever state the
\* generator was in; and two runs with the same parameters return the same
\* result.
C28_SyntheticReplayIsDeterministic ==
    /\ [](b_source = "unavailable"
            => /\ WellFormed(b_params, b_result)
               /\ b_params.strategy_type \in Strategies
                     => b_result = SeededReplay(b_params))
    /\ [][(b_source = "unavailable" /\ b_source' = "unavailable" /\ b_params' = b_params)
            => b_result' = b_result]_vars

\* A run of the moving average crossover without the data source that
\* closed a trade.
C28_Witness ==
    /\ b_source = "unavailable"
    /\ b_params.strategy_type = "moving_average_crossover"
    /\ b_result.kind = "performance"
    /\ b_result.total_trades > 0

(***************************************************************************)
(* Properties of SimpleTradingService                                      *)
(***************************************************************************)
\* C6: when an emergency stop completes, no position remains open.
C6_EmergencyStopClosesAll ==
    [][(\E enabled \in BOOLEAN : HandleCommand("emergency_stop", enabled))
          => s_positions' = <<>>]_vars

\* C7: a position is opened only for a symbol whose score is at least 0.8,
\* whose source count is at least 5 and whose market cap is at most
\* 10,000,000.
C7_OpenedOnlyWhenAdmitted ==
    [][\A n \in DOMAIN s_positions' :
          n > Len(s_positions) =>
             LET data == s_sentiment[s_positions'[n].symbol]
             IN  /\ data.sentimentScore >= 80
                 /\ data.influencerCount >= 5
                 /\ data.marketCap <= 10000000]_vars

(***************************************************************************)
(* Properties of OnChainSignalValidator                                    *)
(***************************************************************************)
\* C35: whale_threshold is the mean of the parsed amounts plus twice their
\* sample standard deviation (0 for one amount), whale_count the number of
\* amounts strictly greater than it, and so whale_count is 0 when fewer
\* than two amounts were parsed or all of them are equal.
C35_WhaleCountIsAmountsOverThreshold ==
    o_whales.called =>
        LET amounts == ParsedAmounts(o_transactions)
            n == Len(amounts)
            s == AmountSum(amounts)
            q == AmountSquares(amounts)
            analysis == o_whales.analysis
            \* n * (x - mean) vs n * 2 * stddev, squared: x below or at the
            \* threshold
            NotOver(x) ==
                \/ n * x <= s
                \/ n > 1 /\ (n * x - s) * (n * x - s) * (n - 1)
                                <= 4 * n * (n * q - s * s)
        IN  /\ n = 0 => analysis = EmptyAnalysis
            /\ n > 0 =>
                  /\ analysis.average_transaction = <<s, n>>
                  /\ NotOver(analysis.whale_threshold)
                  /\ ~NotOver(analysis.whale_threshold + 1)
                  /\ analysis.whale_count =
                        Cardinality({i \in 1..n :
                                        amounts[i] > analysis.whale_threshold})
            /\ (n < 2 \/ \A i \in 1..n : amounts[i] = amounts[1])
                  => analysis.whale_count = 0

\* Six amounts were analysed and one of them is a whale; and a list was
\* analysed whose amounts are all equal.
C35_Witness ==
    /\ o_whales.called
    /\ Len(ParsedAmounts(o_transactions)) = MaxTransfers
    /\ o_whales.analysis.whale_count = 1

C35_WitnessEqual ==
    /\ o_whales.called
    /\ Len(ParsedAmounts(o_transactions)) = 3
    /\ \A i \in 1..3 : ParsedAmounts(o_transactions)[i] = 10
    /\ o_whales.analysis.whale_count = 0

\* C19: the tier is a step function of (transfer count, whale count,
\* volume), the first match winning: STRONG iff count > 30, whales > 2 and
\* volume > 1000; else MODERATE iff count > 20, whales > 1 and volume > 500;
\* else WEAK iff count > 10 and volume > 100; else NONE.  (35, 3, 1500) is
\* STRONG, (25, 2, 600) MODERATE, (15, 0, 150) WEAK and (5, 0, 50) NONE.
C19_TierIsStepFunction ==
    /\ (o_result.called /\ ~o_result.raised /\ o_call.transfers = "ok") =>
          LET a == o_call.activity
              strong == a.tx_count > 30 /\ a.whale_count > 2 /\ a.volume > 1000
              moderate == a.tx_count > 20 /\ a.whale_count > 1 /\ a.volume > 500
              weak == a.tx_count > 10 /\ a.volume > 100
              tier == o_result.validation_status
          IN  /\ tier = "STRONG_VALIDATION" <=> strong
              /\ tier = "MODERATE_VALIDATION" <=> (~strong /\ moderate)
              /\ tier = "WEAK_VALIDATION" <=> (~strong /\ ~moderate /\ weak)
              /\ tier = "NO_VALIDATION" <=> (~strong /\ ~moderate /\ ~weak)
    /\ determine_validation_status(35, 3, 1500) = "STRONG_VALIDATION"
    /\ determine_validation_status(25, 2, 600) = "MODERATE_VALIDATION"
    /\ determine_validation_status(15, 0, 150) = "WEAK_VALIDATION"
    /\ determine_validation_status(5, 0, 50) = "NO_VALIDATION"

\* A call has returned the tier of an activity just over the moderate
\* thresholds.
C19_Witness ==
    /\ o_result.called
    /\ ~o_result.raised
    /\ o_call.transfers = "ok"
    /\ o_call.activity = [tx_count |-> 21, whale_count |-> 2, volume |-> 501]
    /\ o_result.validation_status = "MODERATE_VALIDATION"

\* C20: when the provider is unreachable or answers with malformed data,
\* for the token details or for the transfers, validate_signal returns an
\* assessment and its tier is NONE.
C20_ProviderFailureGivesNone ==
    (o_result.called /\ (o_call.details # "ok" \/ o_call.transfers # "ok"))
        => /\ ~o_result.raised
           /\ o_result.validation_status = "NO_VALIDATION"

(***************************************************************************)
(* Properties of SocialSentimentMonitor                                    *)
(***************************************************************************)
\* A step has put a mention of the token into its window.
Ingested(t) == m_data'[t].present /\ m_data'[t].mentions # m_data[t].mentions

\* C16: the weighted score update_sentiment_score computes lies in [0, 1]
\* when the sentiment of every mention does; and an ingest that leaves a
\* window of total weight zero computes no score and publishes no record.
C16_ScoreWithinUnitInterval ==
    [][\A t \in MonitorTokens :
          /\ Ingested(t) /\ SumOver(m_data'[t].mentions, "w") > 0
                => /\ m_data'[t].score_den > 0
                   /\ m_data'[t].score_num >= 0
                   /\ m_data'[t].score_num <= 100 * m_data'[t].score_den
                   /\ m_cache'[t].present
                   /\ m_cache'[t].score_num = m_data'[t].score_num
                   /\ m_cache'[t].score_den = m_data'[t].score_den
          /\ Ingested(t) /\ SumOver(m_data'[t].mentions, "w") = 0
                => /\ m_data'[t].score_num = m_data[t].score_num
                   /\ m_data'[t].score_den = m_data[t].score_den
                   /\ m_cache'[t] = m_cache[t]
                   /\ m_signals' = m_signals]_vars

\* A window holds mentions of total weight zero and nothing is published.
C16_Witness ==
    \E t \in MonitorTokens :
        /\ m_data[t].present
        /\ m_data[t].mentions # <<>>
        /\ SumOver(m_data[t].mentions, "w") = 0
        /\ ~m_cache[t].present

\* C17: an ingest purges the window before it recomputes: no mention
\* observed 30 minutes or more before the ingest is kept, and the score and
\* the mention count it stores are those of the mentions kept.
C17_PurgedBeforeRecomputation ==
    [][\A t \in MonitorTokens :
          Ingested(t) =>
             /\ \A n \in DOMAIN m_data'[t].mentions :
                   m_data'[t].mentions[n].timestamp > m_now - WindowMinutes
             /\ SumOver(m_data'[t].mentions, "w") > 0 =>
                   /\ m_data'[t].score_num = SumOver(m_data'[t].mentions, "sw")
                   /\ m_data'[t].score_den = SumOver(m_data'[t].mentions, "w")
                   /\ m_data'[t].influencer_count = Len(m_data'[t].mentions)
                   /\ m_cache'[t].influencer_count = Len(m_data'[t].mentions)]_vars

\* Five mentions once made a signal, and a later ingest within the hour
\* has left one mention in the window.
C17_Witness ==
    \E t \in MonitorTokens :
        /\ m_signals # <<>>
        /\ m_now <= 60
        /\ m_data[t].present
        /\ m_data[t].last_updated = m_now
        /\ m_data[t].influencer_count = 1
        /\ Len(m_data[t].mentions) = 1

\* C18: at every moment the published score of a token is the weighted
\* average over exactly the mentions that are within the trailing 30
\* minutes at that moment, also when time has advanced without an ingest.
C18_ScoreFollowsWindow ==
    \A t \in MonitorTokens :
        m_cache[t].present =>
            LET window == PurgeWindow(m_data[t].mentions, m_now - WindowMinutes)
            IN  /\ SumOver(window, "w") > 0
                /\ m_cache[t].score_num * SumOver(window, "w")
                      = SumOver(window, "sw") * m_cache[t].score_den

\* C33: when the lookup of the market cap fails, or the token is unknown,
\* get_token_market_cap gives 0, and the signal check takes the market-cap
\* condition as met: an ingest that publishes a score of at least 0.8 and
\* a count of at least 5 with a market cap of 0 pushes a BUY signal for the
\* token.
C33_UnknownCapPassesTheCheck ==
    /\ [](\A lookup \in CapLookups :
             lookup.outcome # "ok" => get_token_market_cap(lookup) = 0)
    /\ [][\A t \in MonitorTokens :
             (/\ m_cache'[t] # m_cache[t]
              /\ m_cache'[t].present
              /\ m_cache'[t].market_cap = 0
              /\ m_cache'[t].score_num >= MinSentimentScore * m_cache'[t].score_den
              /\ m_cache'[t].influencer_count >= MinMentionCount)
                 => /\ Len(m_signals') = Len(m_signals) + 1
                    /\ m_signals'[1].type = "BUY_SIGNAL"
                    /\ m_signals'[1].symbol = t
                    /\ m_signals'[1].market_cap = 0]_vars

\* A BUY signal was pushed for a token whose market cap was not known.
C33_Witness ==
    /\ m_signals # <<>>
    /\ m_signals[1].type = "BUY_SIGNAL"
    /\ m_signals[1].market_cap = 0
    /\ m_cache[m_signals[1].symbol].market_cap = 0

C8_NoSignalWithoutChainValidation ==
    \A n \in DOMAIN m_signals :
        validate_signal(m_chain[m_signals[n].symbol]) # "NO_VALIDATION"


\* The programs do not share state: each specification runs one of them and
\* leaves the others as constructed.
MonIdleInit == MonInit /\ \A t \in MonitorTokens : validate_signal(m_chain[t]) = "NO_VALIDATION"
exceptSvc == <<execVars, monVars, simpleVars, memeVars, valVars, gateVars, btVars, loopVars>>
exceptExec == <<monVars, simpleVars, memeVars, svcVars, valVars, gateVars, btVars, loopVars>>
exceptMonitor == <<execVars, simpleVars, memeVars, svcVars, valVars, gateVars, btVars, loopVars>>
exceptSimple == <<execVars, monVars, memeVars, svcVars, valVars, gateVars, btVars, loopVars>>
exceptMeme == <<execVars, monVars, simpleVars, svcVars, valVars, gateVars, btVars, loopVars>>
exceptVal == <<execVars, monVars, simpleVars, memeVars, svcVars, gateVars, btVars, loopVars>>
exceptGate == <<execVars, valVars, monVars, simpleVars, memeVars, svcVars, btVars, loopVars>>
exceptBt == <<execVars, valVars, monVars, simpleVars, memeVars, svcVars, gateVars, loopVars>>
exceptLoops == <<execVars, valVars, monVars, simpleVars, memeVars, svcVars, gateVars, btVars>>

Init == SvcInit /\ ExecInit /\ ValInit /\ MonIdleInit /\ SimpleInit /\ MemeInit /\ GateInit /\ BtInit /\ LoopsInit

Next ==
    \/ RunService /\ UNCHANGED exceptSvc
    \/ \E k \in SocialTasks, token \in ServiceTokens :
          CheckTradingSignal(k, token) /\ UNCHANGED exceptSvc
    \/ \E k \in SocialTasks : TradeReadId(k) /\ UNCHANGED exceptSvc
    \/ \E k \in SocialTasks : TradePushPosition(k) /\ UNCHANGED exceptSvc
    \/ \E k \in SocialTasks : TradePushTrade(k) /\ UNCHANGED exceptSvc
    \/ \E k \in SocialTasks : TradeReadPortfolio(k) /\ UNCHANGED exceptSvc
    \/ \E k \in SocialTasks : TradeWritePortfolio(k) /\ UNCHANGED exceptSvc
    \/ RefreshRead /\ UNCHANGED exceptSvc
    \/ RefreshUpdate /\ UNCHANGED exceptSvc
    \/ RefreshTotals /\ UNCHANGED exceptSvc
    \/ MonitorRead /\ UNCHANGED exceptSvc
    \/ MonitorClose /\ UNCHANGED exceptSvc
    \/ MonitorDone /\ UNCHANGED exceptSvc
    \/ ClosePushTrade /\ UNCHANGED exceptSvc
    \/ CloseReadPortfolio /\ UNCHANGED exceptSvc
    \/ CloseWritePortfolio /\ UNCHANGED exceptSvc

Spec == Init /\ [][Next]_vars

\* The service while it only opens positions, over the range of the entry
\* price.
OpenNext ==
    \/ RunService /\ UNCHANGED exceptSvc
    \/ \E k \in SocialTasks, token \in ServiceTokens :
          CheckTradingSignal(k, token) /\ UNCHANGED exceptSvc
    \/ \E k \in SocialTasks : TradeReadIdFrom(k, OpenEntryPrices) /\ UNCHANGED exceptSvc
    \/ \E k \in SocialTasks : TradePushPosition(k) /\ UNCHANGED exceptSvc
    \/ \E k \in SocialTasks : TradePushTrade(k) /\ UNCHANGED exceptSvc
    \/ \E k \in SocialTasks : TradeReadPortfolio(k) /\ UNCHANGED exceptSvc
    \/ \E k \in SocialTasks : TradeWritePortfolio(k) /\ UNCHANGED exceptSvc

SpecOpen == Init /\ [][OpenNext]_vars

GateNext ==
    \/ \E token \in GateTokens, in \in GateInputs :
          /\ ServiceCheckTradingSignal(token, in.sentiment, in.mentions,
                                       in.market_cap, in.tier)
          /\ UNCHANGED exceptGate
    \/ \E token \in GateTokens, in \in GateInputs :
          /\ MonitorCheckTradingSignal(token, in.sentiment, in.mentions,
                                       in.market_cap, in.tier)
          /\ UNCHANGED exceptGate
    \/ \E n \in 1..MaxServicePositions : GateClosePosition(n) /\ UNCHANGED exceptGate

SpecGate == Init /\ [][GateNext]_vars

ExecNext ==
    \/ ExecuteTrade /\ UNCHANGED exceptExec
    \/ StepFee /\ UNCHANGED exceptExec
    \/ StepSimulate /\ UNCHANGED exceptExec
    \/ StepPrepare /\ UNCHANGED exceptExec
    \/ StepSign /\ UNCHANGED exceptExec
    \/ StepBroadcast /\ UNCHANGED exceptExec

SpecExec == Init /\ [][ExecNext]_vars

MonitorNext ==
    \/ Tick /\ UNCHANGED exceptMonitor
    \/ \E token \in MonitorTokens, tweet \in Tweets, cap \in MarketCaps :
          ProcessTweet(token, tweet, cap) /\ UNCHANGED exceptMonitor
    \/ CleanupOldData /\ UNCHANGED exceptMonitor

MonitorInit == MonInit /\ ExecInit /\ ValInit /\ SimpleInit /\ MemeInit /\ SvcInit /\ GateInit /\ BtInit /\ LoopsInit
SpecMonitor == MonitorInit /\ [][MonitorNext]_vars

\* update_sentiment_score called on its own, over the inputs of ScoreCalls;
\* get_token_market_cap finds no market cap and returns 0.
ScoreNext ==
    \/ m_now + TickMinutes <= MaxScoreTime /\ Tick /\ UNCHANGED exceptMonitor
    \/ \E token \in MonitorTokens, call \in ScoreCalls :
          /\ UpdateSentimentScore(token, call.sentiment, call.engagement,
                                  call.followers, 0)
          /\ UNCHANGED exceptMonitor

SpecScore == Init /\ [][ScoreNext]_vars

ValNext ==
    \/ ValidateSignal /\ UNCHANGED exceptVal

SpecValidate == Init /\ [][ValNext]_vars

\* analyze_whale_activity called on its own, over the lists of WhaleInit.
WhaleNext ==
    \/ AnalyzeWhaleActivity /\ UNCHANGED exceptVal

WhaleStart == WhaleInit /\ ExecInit /\ MonIdleInit /\ SimpleInit /\ MemeInit /\ SvcInit /\ GateInit /\ BtInit /\ LoopsInit
SpecWhale == WhaleStart /\ [][WhaleNext]_vars

SimpleNext ==
    \/ UpdatePortfolioData /\ UNCHANGED exceptSimple
    \/ UpdateSentimentData /\ UNCHANGED exceptSimple
    \/ MonitorTradingSignals /\ UNCHANGED exceptSimple
    \/ \E c \in CommandTypes, en \in BOOLEAN :
          HandleCommand(c, en) /\ UNCHANGED exceptSimple

SpecSimple == Init /\ [][SimpleNext]_vars

MemeNext ==
    \/ \E symbol \in MemeSymbols, sd \in SentimentReads :
          OnQuoteTick(symbol, sd) /\ UNCHANGED exceptMeme
    \/ \E symbol \in MemeSymbols : FillBuy(symbol) /\ UNCHANGED exceptMeme
    \/ \E symbol \in MemeSymbols, which \in {"stop", "limit"} :
          FillRisk(symbol, which) /\ UNCHANGED exceptMeme

SpecMeme == Init /\ [][MemeNext]_vars

BtNext ==
    \/ StartProcess /\ UNCHANGED exceptBt
    \/ \E params \in BacktestParams, source \in DataSources :
          BacktestStrategy(params, source) /\ UNCHANGED exceptBt

SpecBacktest == Init /\ [][BtNext]_vars

\* The periodic loops.  The event loop runs every task that is ready, and a
\* sleep ends: the test and the end of the sleep of each loop are fair.
LoopsNext ==
    \/ StartLoops /\ UNCHANGED exceptLoops
    \/ StartMonitoring /\ UNCHANGED exceptLoops
    \/ StopLoops /\ UNCHANGED exceptLoops
    \/ \E t \in PeriodicLoops : LoopTest(t) /\ UNCHANGED exceptLoops
    \/ \E t \in PeriodicLoops, outcome \in BodyOutcomes :
          LoopBody(t, outcome) /\ UNCHANGED exceptLoops
    \/ \E t \in PeriodicLoops : LoopSleep(t) /\ UNCHANGED exceptLoops

SpecLoops ==
    /\ Init
    /\ [][LoopsNext]_vars
    /\ \A t \in PeriodicLoops :
          /\ WF_vars(LoopTest(t) /\ UNCHANGED exceptLoops)
          /\ WF_vars(LoopSleep(t) /\ UNCHANGED exceptLoops)

====
